---- MODULE Spec2Model ----
(***************************************************************************)
(* Host-side call state machine of the rocBLAS entry points                *)
(* rocblas_her2_strided_batched_impl, rocblas_gemm_impl and                *)
(* rocblas_tbmv_batched_impl, the ger validator / launcher, and the        *)
(* numerics scan they wrap around the kernel dispatch.                     *)
(***************************************************************************)
EXTENDS Integers, Sequences, FiniteSets, TLC

(* ------------------------------ bounds --------------------------------- *)
\* largest extent / leading dimension a caller passes
MaxN == 2
\* largest batch count a caller passes
MaxBatch == 1
\* largest band width (tbmv) and largest gemm extent a caller passes
MaxK == 1

\* largest extent, and largest batch count, of a buffer handed to a scan
MaxScanN == 2
MaxScanBatch == 2

(* -------------------------- program constants -------------------------- *)
\* sizeof(T) for the float instantiation, sizeof(T*) on the 64-bit target
SizeofT == 4
SizeofPtr == 8

(* ------------------------------ state ---------------------------------- *)
VARIABLES
    handle,         \* the live rocblas_handle: size-query flag, pointer mode
    op,             \* the entry point being executed, "none" when idle
    args,           \* the arguments of the call in flight
    pc,             \* position inside the entry point
    locals,         \* its local variables (check_numerics, layer_mode, status, ...)
    ret,            \* the rocblas_status handed back, "none" until the call returns
    events,         \* what the call has done so far, in order
    out,            \* the output operand (A, C or x): "orig" or "written"
    reported_size,  \* the scratch sizes this call reported to the handle
    scan,           \* the numerics scan under test: its operands and its result
    launch,         \* the ger_kernel launch in flight: kernel arguments and grid
    lanes,          \* each lane of the launch: position and registers
    shared,         \* xdata and ydata of each work-group
    mem,            \* device memory holding A
    trace,          \* the memory accesses the lanes have made
    red,            \* the asum reduction call under test
    threads,        \* host threads calling gemm on one shared handle
    slots,          \* the elements of A the column slots of a ger grid map to
    sizes           \* the scratch sizes of one tbmv_batched argument list

\* the state of a ger_kernel launch
kernel_vars == <<launch, lanes, shared, mem, trace>>

vars == <<handle, op, args, pc, locals, ret, events, out, reported_size, scan,
          kernel_vars, red, threads, slots, sizes>>

(* --------------------------- value domains ----------------------------- *)
Dims == -1 .. MaxN
Ldas == 0 .. MaxN
Incs == {0, 1}
Batches == -1 .. MaxBatch
Fills == {"lower", "upper", "full"}
Operations == {"none", "transpose", "bad"}
Diagonals == {"non_unit", "unit", "bad"}
PointerModes == {"host", "device"}
\* rocblas_check_numerics_mode: disabled, report only, or fail on NaN/Inf
CheckModes == {"no_check", "info", "fail"}
LayerModes == {{}, {"log_trace", "log_bench"}, {"log_profile"}}

\* the pointer arguments a caller leaves null: none, exactly one, or all
NullChoices(ptrs) == {{}} \cup {{p} : p \in ptrs} \cup {ptrs}

NoLocals ==
    [check_numerics |-> "unset", layer_mode |-> {}, status |-> "unset",
     input_check |-> "unset", output_check |-> "unset",
     saved_pointer_mode |-> "unset", w_mem |-> "unset", exception |-> FALSE]

NoArgs == [handle_null |-> FALSE]

NoScan == [phase |-> "none"]

(* ----------------------- collaborators (not in src) -------------------- *)
\* the closed status enumeration
Statuses ==
    {"success", "invalid_handle", "invalid_value", "invalid_size",
     "invalid_pointer", "memory_error", "check_numerics_fail", "internal_error"}

\* what the handle hands back when a size is reported to it in size-query
\* mode: some status of the enumeration
size_query_results == Statuses

\* a numerics scan under the given check mode: only mode "fail" can fail
check_numerics_results(mode) ==
    IF mode = "fail" THEN {"success", "check_numerics_fail"} ELSE {"success"}

\* the statuses a kernel template / launcher can hand back
template_results == {"success", "internal_error"}

\* the status the catch(...) handler of a C entry point makes of a fault
exception_to_rocblas_status == "internal_error"

(* ------------------------------ helpers -------------------------------- *)
Log(e) == events' = Append(events, e)

Finish(s) ==
    /\ pc' = "done"
    /\ ret' = s

(* ---------------------- rocblas_her2_strided_batched ------------------- *)
Her2Ptrs == {"alpha", "x", "y", "A"}

Her2Args ==
    [handle_null : BOOLEAN, uplo : Fills, n : Dims, incx : Incs, incy : Incs,
     lda : Ldas, batch_count : Batches, nulls : NullChoices(Her2Ptrs)]

\* the size rule tried before the fill rule
her2_arg_status_size_first(a) ==
    IF a.n < 0 \/ a.incx = 0 \/ a.incy = 0 \/ a.batch_count < 0
       \/ a.lda < a.n \/ a.lda < 1 THEN "invalid_size"
    ELSE IF a.uplo # "lower" /\ a.uplo # "upper" THEN "invalid_value"
    ELSE IF a.n = 0 \/ a.batch_count = 0 THEN "success"
    ELSE IF a.nulls # {} THEN "invalid_pointer"
    ELSE "continue"

\* the inline argument checks of the impl, in source order
her2_arg_status(a) ==
    IF a.uplo # "lower" /\ a.uplo # "upper" THEN "invalid_value"
    ELSE IF a.n < 0 \/ a.incx = 0 \/ a.incy = 0 \/ a.batch_count < 0
            \/ a.lda < a.n \/ a.lda < 1 THEN "invalid_size"
    ELSE IF a.n = 0 \/ a.batch_count = 0 THEN "success"
    ELSE IF a.nulls # {} THEN "invalid_pointer"
    ELSE "continue"

Her2Begin ==
    /\ pc = "idle"
    /\ \E a \in Her2Args :
        /\ op' = "her2"
        /\ args' = a
    /\ pc' = "entry"
    /\ UNCHANGED <<handle, locals, ret, events, out, reported_size, scan, kernel_vars, red, threads, slots, sizes>>

\* if(!handle) ...; RETURN_ZERO_DEVICE_MEMORY_SIZE_IF_QUERIED(handle)
Her2Entry ==
    /\ op = "her2" /\ pc = "entry"
    /\ IF args.handle_null
       THEN /\ Finish("invalid_handle")
            /\ UNCHANGED <<events, reported_size>>
       ELSE IF handle.query
       THEN /\ \E s \in size_query_results : Finish(s)
            /\ reported_size' = <<0>>
            /\ Log("size_query")
       ELSE /\ pc' = "log"
            /\ UNCHANGED <<ret, events, reported_size>>
    /\ UNCHANGED <<handle, op, args, locals, out, scan, kernel_vars, red, threads, slots, sizes>>

\* reads handle->layer_mode, then logs
Her2Log ==
    /\ op = "her2" /\ pc = "log"
    /\ \E lm \in LayerModes :
        /\ locals' = [locals EXCEPT !.layer_mode = lm]
        /\ IF lm # {} THEN Log("log") ELSE UNCHANGED events
    /\ pc' = "validate"
    /\ UNCHANGED <<handle, op, args, ret, out, reported_size, scan, kernel_vars, red, threads, slots, sizes>>

\* the argument checks; past them the copy of handle->check_numerics taken
\* at entry is what decides whether the scans run
Her2Validate ==
    /\ op = "her2" /\ pc = "validate"
    /\ Log("validate")
    /\ IF her2_arg_status(args) # "continue"
       THEN Finish(her2_arg_status(args)) /\ UNCHANGED locals
       ELSE /\ pc' = "pre_scan"
            /\ UNCHANGED ret
            /\ \E cn \in CheckModes :
                 locals' = [locals EXCEPT !.check_numerics = cn]
    /\ UNCHANGED <<handle, op, args, out, reported_size, scan, kernel_vars, red, threads, slots, sizes>>

\* the input scan run in mode "fail" only
Her2PreScan_fail_mode_only ==
    /\ op = "her2" /\ pc = "pre_scan"
    /\ IF locals.check_numerics # "fail"
       THEN pc' = "dispatch" /\ UNCHANGED <<ret, events, locals>>
       ELSE /\ Log("scan_in")
            /\ \E r \in check_numerics_results(locals.check_numerics) :
                /\ locals' = [locals EXCEPT !.input_check = r]
                /\ IF r # "success" THEN Finish(r)
                   ELSE pc' = "dispatch" /\ UNCHANGED ret
    /\ UNCHANGED <<handle, op, args, out, reported_size, scan, kernel_vars, red, threads, slots, sizes>>

Her2PreScan ==
    /\ op = "her2" /\ pc = "pre_scan"
    /\ IF locals.check_numerics = "no_check"
       THEN pc' = "dispatch" /\ UNCHANGED <<ret, events, locals>>
       ELSE /\ Log("scan_in")
            /\ \E r \in check_numerics_results(locals.check_numerics) :
                /\ locals' = [locals EXCEPT !.input_check = r]
                /\ IF r # "success" THEN Finish(r)
                   ELSE pc' = "dispatch" /\ UNCHANGED ret
    /\ UNCHANGED <<handle, op, args, out, reported_size, scan, kernel_vars, red, threads, slots, sizes>>

Her2Dispatch ==
    /\ op = "her2" /\ pc = "dispatch"
    /\ Log("dispatch")
    /\ \E s \in template_results :
        /\ locals' = [locals EXCEPT !.status = s]
        /\ IF s # "success"
           THEN Finish(s) /\ UNCHANGED out
           ELSE pc' = "post_scan" /\ out' = "written" /\ UNCHANGED ret
    /\ UNCHANGED <<handle, op, args, reported_size, scan, kernel_vars, red, threads, slots, sizes>>

\* the output scan's status dropped
Her2PostScan_drops_scan_status ==
    /\ op = "her2" /\ pc = "post_scan"
    /\ IF locals.check_numerics = "no_check"
       THEN Finish(locals.status) /\ UNCHANGED <<events, locals>>
       ELSE /\ Log("scan_out")
            /\ \E r \in check_numerics_results(locals.check_numerics) :
                /\ locals' = [locals EXCEPT !.output_check = r]
                /\ Finish(locals.status)
    /\ UNCHANGED <<handle, op, args, out, reported_size, scan, kernel_vars, red, threads, slots, sizes>>

Her2PostScan ==
    /\ op = "her2" /\ pc = "post_scan"
    /\ IF locals.check_numerics = "no_check"
       THEN Finish(locals.status) /\ UNCHANGED <<events, locals>>
       ELSE /\ Log("scan_out")
            /\ \E r \in check_numerics_results(locals.check_numerics) :
                /\ locals' = [locals EXCEPT !.output_check = r]
                /\ IF r # "success" THEN Finish(r) ELSE Finish(locals.status)
    /\ UNCHANGED <<handle, op, args, out, reported_size, scan, kernel_vars, red, threads, slots, sizes>>


\* the step the implementation is at calls a collaborator that can throw:
\* a numerics scan when checking is enabled, or the kernel template
Her2Throwing ==
    \/ pc \in {"pre_scan", "post_scan"} /\ locals.check_numerics # "no_check"
    \/ pc = "dispatch"

\* the event of the step the implementation is at
StepEvent ==
    CASE pc = "pre_scan" -> "scan_in"
      [] pc = "post_scan" -> "scan_out"
      [] pc = "workspace" -> "alloc"
      [] OTHER -> pc

\* the handler missing: the fault leaves the entry point
Her2Catch_no_handler ==
    /\ op = "her2" /\ Her2Throwing
    /\ Log(StepEvent)
    /\ locals' = [locals EXCEPT !.exception = TRUE]
    /\ pc' = "escaped"
    /\ UNCHANGED <<handle, op, args, ret, out, reported_size, scan, kernel_vars, red, threads, slots, sizes>>

\* rocblas_cher2 / rocblas_zher2_strided_batched: try { return impl } with
\* catch(...) { return exception_to_rocblas_status(); }
Her2Catch ==
    /\ op = "her2" /\ Her2Throwing
    /\ Log(StepEvent)
    /\ locals' = [locals EXCEPT !.exception = TRUE]
    /\ Finish(exception_to_rocblas_status)
    /\ UNCHANGED <<handle, op, args, out, reported_size, scan, kernel_vars, red, threads, slots, sizes>>

(* --------------------------- rocblas_tbmv_batched ---------------------- *)
TbmvPtrs == {"A", "x"}

TbmvArgs ==
    [handle_null : BOOLEAN, uplo : Fills, transA : Operations, diag : Diagonals,
     n : Dims, k : -1 .. MaxK, lda : Ldas, incx : Incs, batch_count : Batches,
     nulls : SUBSET TbmvPtrs]

\* rocblas_tbmv_arg_check (rocblas_tbmv.hpp): modes, then sizes, then the
\* quick return; the null-pointer rule is applied by the impl itself
rocblas_tbmv_arg_check(a) ==
    IF a.uplo \notin {"lower", "upper"} \/ a.transA = "bad" \/ a.diag = "bad"
    THEN "invalid_value"
    ELSE IF a.n < 0 \/ a.k < 0 \/ a.incx = 0 \/ a.batch_count < 0
            \/ a.lda < a.k + 1 \/ a.lda < 1 THEN "invalid_size"
    ELSE IF a.n = 0 \/ a.batch_count = 0 THEN "success"
    ELSE "continue"

\* the two scratch buffers of tbmv_batched: the x copy and its pointer table
tbmv_workspace_sizes(a) ==
    <<SizeofT * a.n * a.batch_count, SizeofPtr * a.batch_count>>

TbmvBegin ==
    /\ pc = "idle"
    /\ \E a \in TbmvArgs :
        /\ op' = "tbmv"
        /\ args' = a
    /\ pc' = "entry"
    /\ UNCHANGED <<handle, locals, ret, events, out, reported_size, scan, kernel_vars, red, threads, slots, sizes>>

\* if(!handle) ...; logging unless the handle is in size-query mode
TbmvEntry ==
    /\ op = "tbmv" /\ pc = "entry"
    /\ IF args.handle_null
       THEN Finish("invalid_handle") /\ UNCHANGED <<locals, events>>
       ELSE /\ pc' = "validate"
            /\ UNCHANGED ret
            /\ IF handle.query
               THEN UNCHANGED <<locals, events>>
               ELSE \E lm \in LayerModes :
                       /\ locals' = [locals EXCEPT !.layer_mode = lm]
                       /\ IF lm # {} THEN Log("log") ELSE UNCHANGED events
    /\ UNCHANGED <<handle, op, args, out, reported_size, scan, kernel_vars, red, threads, slots, sizes>>

\* arg check, then if(!A || !x)
TbmvValidate ==
    /\ op = "tbmv" /\ pc = "validate"
    /\ Log("validate")
    /\ IF rocblas_tbmv_arg_check(args) # "continue"
       THEN Finish(rocblas_tbmv_arg_check(args))
       ELSE IF args.nulls # {}
       THEN Finish("invalid_pointer")
       ELSE pc' = "workspace" /\ UNCHANGED ret
    /\ UNCHANGED <<handle, op, args, locals, out, reported_size, scan, kernel_vars, red, threads, slots, sizes>>

\* device_malloc with no size-query test in front of it
TbmvWorkspace_no_query_test ==
    /\ op = "tbmv" /\ pc = "workspace"
    /\ Log("alloc")
    /\ \E got \in BOOLEAN :
        IF got
        THEN /\ locals' = [locals EXCEPT !.w_mem = tbmv_workspace_sizes(args)]
             /\ pc' = "setup"
             /\ UNCHANGED ret
        ELSE /\ Finish("memory_error")
             /\ UNCHANGED locals
    /\ UNCHANGED <<handle, op, args, out, reported_size, scan, kernel_vars, red, threads, slots, sizes>>

\* device_malloc whose failure is not tested
TbmvWorkspace_ignores_failure ==
    /\ op = "tbmv" /\ pc = "workspace"
    /\ IF handle.query
       THEN /\ reported_size' = tbmv_workspace_sizes(args)
            /\ Log("size_query")
            /\ \E s \in size_query_results : Finish(s)
            /\ UNCHANGED locals
       ELSE /\ Log("alloc")
            /\ UNCHANGED <<reported_size, ret>>
            /\ pc' = "setup"
            /\ \E got \in BOOLEAN :
                  locals' = [locals EXCEPT
                      !.w_mem = IF got THEN tbmv_workspace_sizes(args) ELSE "unset"]
    /\ UNCHANGED <<handle, op, args, out, scan, kernel_vars, red, threads, slots, sizes>>

\* size query answered, or device_malloc of the two buffers
TbmvWorkspace ==
    /\ op = "tbmv" /\ pc = "workspace"
    /\ IF handle.query
       THEN /\ reported_size' = tbmv_workspace_sizes(args)
            /\ Log("size_query")
            /\ \E s \in size_query_results : Finish(s)
            /\ UNCHANGED locals
       ELSE /\ Log("alloc")
            /\ UNCHANGED reported_size
            /\ \E got \in BOOLEAN :
                IF got
                THEN /\ locals' = [locals EXCEPT !.w_mem = tbmv_workspace_sizes(args)]
                     /\ pc' = "setup"
                     /\ UNCHANGED ret
                ELSE /\ Finish("memory_error")
                     /\ UNCHANGED locals
    /\ UNCHANGED <<handle, op, args, out, scan, kernel_vars, red, threads, slots, sizes>>

\* setup_batched_array<256> fills the pointer table; then check_numerics is read
TbmvSetup ==
    /\ op = "tbmv" /\ pc = "setup"
    /\ Log("setup")
    /\ \E s \in template_results :
        IF s # "success"
        THEN Finish(s) /\ UNCHANGED locals
        ELSE /\ pc' = "pre_scan"
             /\ UNCHANGED ret
             /\ \E cn \in CheckModes :
                  locals' = [locals EXCEPT !.check_numerics = cn]
    /\ UNCHANGED <<handle, op, args, out, reported_size, scan, kernel_vars, red, threads, slots, sizes>>

TbmvPreScan ==
    /\ op = "tbmv" /\ pc = "pre_scan"
    /\ IF locals.check_numerics = "no_check"
       THEN pc' = "dispatch" /\ UNCHANGED <<ret, events, locals>>
       ELSE /\ Log("scan_in")
            /\ \E r \in check_numerics_results(locals.check_numerics) :
                /\ locals' = [locals EXCEPT !.input_check = r]
                /\ IF r # "success" THEN Finish(r)
                   ELSE pc' = "dispatch" /\ UNCHANGED ret
    /\ UNCHANGED <<handle, op, args, out, reported_size, scan, kernel_vars, red, threads, slots, sizes>>

TbmvDispatch ==
    /\ op = "tbmv" /\ pc = "dispatch"
    /\ Log("dispatch")
    /\ \E s \in template_results :
        /\ locals' = [locals EXCEPT !.status = s]
        /\ IF s # "success"
           THEN Finish(s) /\ UNCHANGED out
           ELSE pc' = "post_scan" /\ out' = "written" /\ UNCHANGED ret
    /\ UNCHANGED <<handle, op, args, reported_size, scan, kernel_vars, red, threads, slots, sizes>>

TbmvPostScan ==
    /\ op = "tbmv" /\ pc = "post_scan"
    /\ IF locals.check_numerics = "no_check"
       THEN Finish(locals.status) /\ UNCHANGED <<events, locals>>
       ELSE /\ Log("scan_out")
            /\ \E r \in check_numerics_results(locals.check_numerics) :
                /\ locals' = [locals EXCEPT !.output_check = r]
                /\ IF r # "success" THEN Finish(r) ELSE Finish(locals.status)
    /\ UNCHANGED <<handle, op, args, out, reported_size, scan, kernel_vars, red, threads, slots, sizes>>

\* device_malloc, setup_batched_array, a numerics scan or the launcher throws
TbmvThrowing ==
    \/ pc \in {"pre_scan", "post_scan"} /\ locals.check_numerics # "no_check"
    \/ pc \in {"setup", "dispatch"}
    \/ pc = "workspace" /\ ~handle.query

\* IMPL(routine_name_, TI_, T_): try { return impl } with
\* catch(...) { return exception_to_rocblas_status(); }
TbmvCatch ==
    /\ op = "tbmv" /\ TbmvThrowing
    /\ Log(StepEvent)
    /\ locals' = [locals EXCEPT !.exception = TRUE]
    /\ Finish(exception_to_rocblas_status)
    /\ UNCHANGED <<handle, op, args, out, reported_size, scan, kernel_vars, red, threads, slots, sizes>>

(* ------------------------------ rocblas_gemm --------------------------- *)
GemmPtrs == {"alpha", "A", "B", "beta", "C"}

GemmArgs ==
    [handle_null : BOOLEAN, trans_a : Operations, trans_b : Operations,
     m : -1 .. MaxK, n : -1 .. MaxK, k : -1 .. MaxK,
     lda : 0 .. MaxK, ldb : 0 .. MaxK, ldc : 0 .. MaxK,
     nulls : NullChoices(GemmPtrs)]

\* rocblas_gemm_arg_check (rocblas_gemm.hpp): modes, sizes, quick return,
\* pointers, in the validator's rule order
rocblas_gemm_arg_check(a) ==
    LET rows_a == IF a.trans_a = "none" THEN a.m ELSE a.k
        rows_b == IF a.trans_b = "none" THEN a.k ELSE a.n
    IN  IF a.trans_a = "bad" \/ a.trans_b = "bad" THEN "invalid_value"
        ELSE IF a.m < 0 \/ a.n < 0 \/ a.k < 0
                \/ a.lda < rows_a \/ a.ldb < rows_b \/ a.ldc < a.m
                \/ a.lda < 1 \/ a.ldb < 1 \/ a.ldc < 1 THEN "invalid_size"
        ELSE IF a.m = 0 \/ a.n = 0 THEN "success"
        ELSE IF a.nulls # {} THEN "invalid_pointer"
        ELSE "continue"

\* every return after push_pointer_mode pops the saved pointer mode
FinishPop_keeps_host(s) ==
    /\ Finish(s)
    /\ UNCHANGED handle
FinishPop(s) ==
    /\ Finish(s)
    /\ handle' = [handle EXCEPT !.pointer_mode = locals.saved_pointer_mode]

GemmBegin ==
    /\ pc = "idle"
    /\ \E a \in GemmArgs :
        /\ op' = "gemm"
        /\ args' = a
    /\ pc' = "entry"
    /\ UNCHANGED <<handle, locals, ret, events, out, reported_size, scan, kernel_vars, red, threads, slots, sizes>>

GemmEntry ==
    /\ op = "gemm" /\ pc = "entry"
    /\ IF args.handle_null
       THEN /\ Finish("invalid_handle")
            /\ UNCHANGED <<events, reported_size>>
       ELSE IF handle.query
       THEN /\ \E s \in size_query_results : Finish(s)
            /\ reported_size' = <<0>>
            /\ Log("size_query")
       ELSE /\ pc' = "scalars"
            /\ UNCHANGED <<ret, events, reported_size>>
    /\ UNCHANGED <<handle, op, args, locals, out, scan, kernel_vars, red, threads, slots, sizes>>

\* rocblas_copy_alpha_beta_to_host_if_on_device, then push_pointer_mode(host)
GemmScalars ==
    /\ op = "gemm" /\ pc = "scalars"
    /\ \E copied \in BOOLEAN :
        /\ copied \/ (handle.pointer_mode = "device" /\ {"alpha", "beta"} \ args.nulls # {})
        /\ IF handle.pointer_mode = "device" /\ {"alpha", "beta"} \ args.nulls # {}
           THEN Log("copy_scalars")
           ELSE UNCHANGED events
        /\ IF copied
           THEN /\ locals' = [locals EXCEPT !.saved_pointer_mode = handle.pointer_mode]
                /\ handle' = [handle EXCEPT !.pointer_mode = "host"]
                /\ pc' = "log"
                /\ UNCHANGED ret
           ELSE /\ Finish("internal_error")
                /\ UNCHANGED <<handle, locals>>
    /\ UNCHANGED <<op, args, out, reported_size, scan, kernel_vars, red, threads, slots, sizes>>

\* reads layer_mode, logs; log_profile evaluates value_category(*alpha) and
\* value_category(*beta) with no null test
GemmLog ==
    /\ op = "gemm" /\ pc = "log"
    /\ \E lm \in LayerModes :
        /\ locals' = [locals EXCEPT !.layer_mode = lm]
        /\ IF "log_profile" \in lm /\ {"alpha", "beta"} \cap args.nulls # {}
           THEN /\ Log("null_deref")
                /\ pc' \in {"crashed", "validate"}
           ELSE /\ IF lm # {} THEN Log("log") ELSE UNCHANGED events
                /\ pc' = "validate"
    /\ UNCHANGED <<handle, op, args, ret, out, reported_size, scan, kernel_vars, red, threads, slots, sizes>>

\* rocblas_gemm_arg_check; past it the copy of handle->check_numerics taken
\* at entry is what decides whether the scans run
GemmValidate ==
    /\ op = "gemm" /\ pc = "validate"
    /\ Log("validate")
    /\ IF rocblas_gemm_arg_check(args) # "continue"
       THEN FinishPop(rocblas_gemm_arg_check(args)) /\ UNCHANGED locals
       ELSE /\ pc' = "pre_scan"
            /\ UNCHANGED <<ret, handle>>
            /\ \E cn \in CheckModes :
                 locals' = [locals EXCEPT !.check_numerics = cn]
    /\ UNCHANGED <<op, args, out, reported_size, scan, kernel_vars, red, threads, slots, sizes>>

\* the input scan's status ignored
GemmPreScan_ignores_status ==
    /\ op = "gemm" /\ pc = "pre_scan"
    /\ IF locals.check_numerics = "no_check"
       THEN UNCHANGED <<events, locals>>
       ELSE /\ Log("scan_in")
            /\ \E r \in check_numerics_results(locals.check_numerics) :
                locals' = [locals EXCEPT !.input_check = r]
    /\ pc' = "dispatch"
    /\ UNCHANGED <<ret, handle, op, args, out, reported_size, scan, kernel_vars, red, threads, slots, sizes>>

GemmPreScan ==
    /\ op = "gemm" /\ pc = "pre_scan"
    /\ IF locals.check_numerics = "no_check"
       THEN pc' = "dispatch" /\ UNCHANGED <<ret, events, handle, locals>>
       ELSE /\ Log("scan_in")
            /\ \E r \in check_numerics_results(locals.check_numerics) :
                /\ locals' = [locals EXCEPT !.input_check = r]
                /\ IF r # "success" THEN FinishPop(r)
                   ELSE pc' = "dispatch" /\ UNCHANGED <<ret, handle>>
    /\ UNCHANGED <<op, args, out, reported_size, scan, kernel_vars, red, threads, slots, sizes>>

\* the template's status is not tested before the output scan
GemmDispatch_ignores_status ==
    /\ op = "gemm" /\ pc = "dispatch"
    /\ Log("dispatch")
    /\ \E s \in template_results : locals' = [locals EXCEPT !.status = s]
    /\ pc' = "post_scan" /\ out' = "written"
    /\ UNCHANGED <<ret, handle, op, args, reported_size, scan, kernel_vars, red, threads, slots, sizes>>
GemmDispatch ==
    /\ op = "gemm" /\ pc = "dispatch"
    /\ Log("dispatch")
    /\ \E s \in template_results :
        /\ locals' = [locals EXCEPT !.status = s]
        /\ IF s # "success"
           THEN FinishPop(s) /\ UNCHANGED out
           ELSE pc' = "post_scan" /\ out' = "written" /\ UNCHANGED <<ret, handle>>
    /\ UNCHANGED <<op, args, reported_size, scan, kernel_vars, red, threads, slots, sizes>>

GemmPostScan ==
    /\ op = "gemm" /\ pc = "post_scan"
    /\ IF locals.check_numerics = "no_check"
       THEN FinishPop(locals.status) /\ UNCHANGED <<events, locals>>
       ELSE /\ Log("scan_out")
            /\ \E r \in check_numerics_results(locals.check_numerics) :
                /\ locals' = [locals EXCEPT !.output_check = r]
                /\ IF r # "success" THEN FinishPop(r) ELSE FinishPop(locals.status)
    /\ UNCHANGED <<op, args, out, reported_size, scan, kernel_vars, red, threads, slots, sizes>>

GemmThrowing ==
    \/ pc \in {"pre_scan", "post_scan"} /\ locals.check_numerics # "no_check"
    \/ pc = "dispatch"

\* IMPL(routine_name_, TI_, T_): try { return impl } with
\* catch(...) { return exception_to_rocblas_status(); }; unwinding the
\* implementation's frame drops saved_pointer_mode
GemmCatch ==
    /\ op = "gemm" /\ GemmThrowing
    /\ Log(StepEvent)
    /\ locals' = [locals EXCEPT !.exception = TRUE]
    /\ FinishPop(exception_to_rocblas_status)
    /\ UNCHANGED <<op, args, out, reported_size, scan, kernel_vars, red, threads, slots, sizes>>

(* --------------------------------- ger --------------------------------- *)
GerPtrs == {"alpha", "x", "y", "A"}

GerArgs ==
    [handle_null : {FALSE}, m : Dims, n : Dims, incx : Incs, incy : Incs,
     lda : Ldas, batch_count : Batches, nulls : NullChoices(GerPtrs)]

rocblas_ger_arg_check(a) ==
    IF a.m < 0 \/ a.n < 0 \/ a.incx = 0 \/ a.incy = 0 \/ a.lda < a.m
       \/ a.lda < 1 \/ a.batch_count < 0 THEN "invalid_size"
    ELSE IF a.m = 0 \/ a.n = 0 \/ a.batch_count = 0 THEN "success"
    ELSE IF a.nulls # {} THEN "invalid_pointer"
    ELSE "continue"

\* a ger entry point runs the validator and then the launcher; library code
\* that has validated its arguments already calls the launcher directly
GerBegin ==
    /\ pc = "idle"
    /\ ~handle.query
    /\ \E a \in GerArgs, entry \in {"validate", "dispatch"} :
        /\ entry = "dispatch" => rocblas_ger_arg_check(a) \in {"success", "continue"}
        /\ op' = "ger"
        /\ args' = a
        /\ pc' = entry
    /\ UNCHANGED <<handle, locals, ret, events, out, reported_size, scan, kernel_vars, red, threads, slots, sizes>>

GerValidate ==
    /\ op = "ger" /\ pc = "validate"
    /\ Log("validate")
    /\ IF rocblas_ger_arg_check(args) # "continue"
       THEN Finish(rocblas_ger_arg_check(args))
       ELSE pc' = "dispatch" /\ UNCHANGED ret
    /\ UNCHANGED <<handle, op, args, locals, out, reported_size, scan, kernel_vars, red, threads, slots, sizes>>

\* the launcher without its quick return
GerTemplate_no_quick_return ==
    /\ op = "ger" /\ pc = "dispatch"
    /\ Log("dispatch") /\ out' = "written"
    /\ Finish("success")
    /\ UNCHANGED <<handle, op, args, locals, reported_size, scan, kernel_vars, red, threads, slots, sizes>>

\* rocblas_ger_template: quick return, else one ger_kernel launch
GerTemplate ==
    /\ op = "ger" /\ pc = "dispatch"
    /\ IF args.m = 0 \/ args.n = 0 \/ args.batch_count = 0
       THEN UNCHANGED <<events, out>>
       ELSE Log("dispatch") /\ out' = "written"
    /\ Finish("success")
    /\ UNCHANGED <<handle, op, args, locals, reported_size, scan, kernel_vars, red, threads, slots, sizes>>

(* ------------------------------ caller --------------------------------- *)
\* the caller takes the status; the call's frame is gone
Return ==
    /\ pc = "done"
    /\ pc' = "idle"
    /\ op' = "none"
    /\ args' = NoArgs
    /\ locals' = NoLocals
    /\ ret' = "none"
    /\ events' = <<>>
    /\ out' = "orig"
    /\ reported_size' = <<>>
    /\ UNCHANGED <<handle, scan, kernel_vars, red, threads, slots, sizes>>

SetPointerMode ==
    /\ pc = "idle"
    /\ \E m \in PointerModes :
        /\ m # handle.pointer_mode
        /\ handle' = [handle EXCEPT !.pointer_mode = m]
    /\ UNCHANGED <<op, args, pc, locals, ret, events, out, reported_size, scan, kernel_vars, red, threads, slots, sizes>>

StartSizeQuery ==
    /\ pc = "idle"
    /\ ~handle.query
    /\ handle' = [handle EXCEPT !.query = TRUE]
    /\ UNCHANGED <<op, args, pc, locals, ret, events, out, reported_size, scan, kernel_vars, red, threads, slots, sizes>>

StopSizeQuery ==
    /\ pc = "idle"
    /\ handle.query
    /\ handle' = [handle EXCEPT !.query = FALSE]
    /\ UNCHANGED <<op, args, pc, locals, ret, events, out, reported_size, scan, kernel_vars, red, threads, slots, sizes>>

(* --------------------------- specification ----------------------------- *)
Init ==
    /\ handle = [query |-> FALSE, pointer_mode |-> "host"]
    /\ op = "none"
    /\ args = NoArgs
    /\ pc = "idle"
    /\ locals = NoLocals
    /\ ret = "none"
    /\ events = <<>>
    /\ out = "orig"
    /\ reported_size = <<>>
    /\ scan = NoScan
    /\ launch = [phase |-> "none"]
    /\ lanes = <<>>
    /\ shared = <<>>
    /\ mem = <<>>
    /\ trace = {}
    /\ red = [phase |-> "none"]
    /\ threads = [phase |-> "none"]
    /\ slots = [phase |-> "none"]
    /\ sizes = [phase |-> "none"]

Next ==
    \/ Her2Begin
    \/ Her2Entry
    \/ Her2Log
    \/ Her2Validate
    \/ Her2PreScan
    \/ Her2Dispatch
    \/ Her2PostScan
    \/ Her2Catch
    \/ TbmvBegin
    \/ TbmvEntry
    \/ TbmvValidate
    \/ TbmvWorkspace
    \/ TbmvSetup
    \/ TbmvPreScan
    \/ TbmvDispatch
    \/ TbmvPostScan
    \/ TbmvCatch
    \/ GemmBegin
    \/ GemmEntry
    \/ GemmScalars
    \/ GemmLog
    \/ GemmValidate
    \/ GemmPreScan
    \/ GemmDispatch
    \/ GemmPostScan
    \/ GemmCatch
    \/ GerBegin
    \/ GerValidate
    \/ GerTemplate
    \/ Return
    \/ SetPointerMode
    \/ StartSizeQuery
    \/ StopSizeQuery

Spec == Init /\ [][Next]_vars

(* ----------------------------- numerics scan --------------------------- *)
\* what a device element can hold, as far as a scan can tell
ElementClasses == {"finite", "zero", "nan", "inf"}
AbnormalClasses == {"nan", "inf"}
ScanIncs == {1, 2}
ScanOffsets == {0, 1}
ScanBuffers == {"A", "x", "y"}

\* cells of one batch item of each operand as the caller laid it out: the
\* offset, then lda * n cells of A, m * inc_x of x, n * inc_y of y
ItemCells(s, buf) ==
    s.offset + (CASE buf = "A" -> s.lda * s.n
                  [] buf = "x" -> s.m * s.inc_x
                  [] buf = "y" -> s.n * s.inc_y)

\* where the caller put batch item b: consecutive items behind one pointer,
\* or separately placed items reached through a pointer table
ItemStart(s, buf, b) ==
    IF s.batched THEN (s.batch_count - 1 - b) * ItemCells(s, buf)
    ELSE b * ItemCells(s, buf)

\* an operand as it is passed to a scan: a plain pointer or a pointer
\* array, with its offset, its increment or leading dimension and its stride
Operand(s, buf) ==
    [buf |-> buf, batched |-> s.batched, base |-> 0,
     table |-> [b \in 0 .. s.batch_count - 1 |-> ItemStart(s, buf, b)],
     offset |-> s.offset,
     inc |-> (CASE buf = "A" -> s.lda [] buf = "x" -> s.inc_x [] buf = "y" -> s.inc_y),
     stride |-> ItemCells(s, buf)]

\* one device element: the buffer's filling, or the injected value
DeviceRead(s, buf, addr) ==
    IF s.bad.buf = buf /\ addr = ItemStart(s, buf, s.bad.item) + s.bad.cell
    THEN s.bad.cls
    ELSE s.fill

\* start of batch item b under either addressing
load_ptr_batch_first_item(p, b, offset, stride) ==
    IF p.batched THEN p.table[b] + offset ELSE p.base + offset
load_ptr_batch(p, b, offset, stride) ==
    IF p.batched THEN p.table[b] + offset ELSE p.base + offset + b * stride

\* the status a scan derives from what its kernel found
check_numerics_status(found, check_numerics) ==
    IF check_numerics = "fail" /\ found \cap AbnormalClasses # {}
    THEN "check_numerics_fail"
    ELSE "success"

\* vector scan (x, offset_x, inc_x, stride_x travel in x): element tid of
\* batch item b is at tid * inc_x from the item's start
rocblas_check_numerics_vector_template(s, n, x, batch_count, check_numerics) ==
    IF n <= 0 \/ x.inc <= 0 \/ batch_count <= 0 THEN "success"
    ELSE check_numerics_status(
             {DeviceRead(s, x.buf, load_ptr_batch(x, b, x.offset, x.stride) + tid * x.inc) :
                  b \in 0 .. batch_count - 1, tid \in 0 .. n - 1},
             check_numerics)

\* general-matrix scan (A, offset_a, lda, stride_a travel in A): element
\* (row, col) of batch item b is at row + col * lda from the item's start
rocblas_check_numerics_ge_matrix_template(s, trans_a, m, n, A, batch_count, check_numerics) ==
    LET rows == IF trans_a = "none" THEN m ELSE n
        cols == IF trans_a = "none" THEN n ELSE m
    IN  IF m <= 0 \/ n <= 0 \/ batch_count <= 0 THEN "success"
        ELSE check_numerics_status(
                 {DeviceRead(s, A.buf, load_ptr_batch(A, b, A.offset, A.stride)
                                          + row + col * A.inc) :
                      b \in 0 .. batch_count - 1,
                      row \in 0 .. rows - 1, col \in 0 .. cols - 1},
                 check_numerics)

\* the scan of y made with the length of x
rocblas_ger_check_numerics_y_length_m(s, m, n, A, x, y, batch_count, check_numerics) ==
    LET a_status == rocblas_check_numerics_ge_matrix_template(
                        s, "none", m, n, A, batch_count, check_numerics)
        x_status == rocblas_check_numerics_vector_template(
                        s, m, x, batch_count, check_numerics)
        y_status == rocblas_check_numerics_vector_template(
                        s, m, y, batch_count, check_numerics)
    IN  IF a_status # "success" THEN a_status
        ELSE IF x_status # "success" THEN x_status
        ELSE y_status

\* A as an m x n general matrix, then x with length m, then y with length n;
\* the first status that is not success is returned
rocblas_ger_check_numerics(s, m, n, A, x, y, batch_count, check_numerics) ==
    LET a_status == rocblas_check_numerics_ge_matrix_template(
                        s, "none", m, n, A, batch_count, check_numerics)
        x_status == rocblas_check_numerics_vector_template(
                        s, m, x, batch_count, check_numerics)
        y_status == rocblas_check_numerics_vector_template(
                        s, n, y, batch_count, check_numerics)
    IN  IF a_status # "success" THEN a_status
        ELSE IF x_status # "success" THEN x_status
        ELSE y_status

\* the buffers a caller can hand to a scan: every cell finite or every cell
\* zero, and at most one cell of one batch item overwritten with NaN or Inf
ScanInputs ==
    {s \in [phase : {"ready"}, m : 1 .. MaxScanN, n : 1 .. MaxScanN,
            lda : 1 .. MaxScanN, inc_x : ScanIncs, inc_y : ScanIncs,
            offset : ScanOffsets, batch_count : 1 .. MaxScanBatch,
            batched : BOOLEAN, check_numerics : CheckModes,
            fill : ElementClasses \ AbnormalClasses,
            bad : [buf : ScanBuffers \cup {"none"}, item : 0 .. MaxScanBatch - 1,
                   cell : 0 .. MaxScanN * MaxScanN, cls : AbnormalClasses],
            kind : {"none"}, result : {"none"}] :
        /\ s.lda >= s.m
        /\ IF s.bad.buf = "none"
           THEN s.bad.item = 0 /\ s.bad.cell = 0 /\ s.bad.cls = "nan"
           ELSE /\ s.bad.item < s.batch_count
                /\ s.bad.cell < ItemCells(s, s.bad.buf)}

\* the caller fills the device buffers
ScanSetup ==
    /\ scan.phase = "none"
    /\ scan' \in ScanInputs
    /\ UNCHANGED <<handle, op, args, pc, locals, ret, events, out, reported_size,
                   kernel_vars, red, threads, slots, sizes>>

ScanVector ==
    /\ scan.phase = "ready"
    /\ scan' = [scan EXCEPT
           !.phase = "scanned", !.kind = "vector",
           !.result = rocblas_check_numerics_vector_template(
                          scan, scan.m, Operand(scan, "x"), scan.batch_count,
                          scan.check_numerics)]
    /\ UNCHANGED <<handle, op, args, pc, locals, ret, events, out, reported_size,
                   kernel_vars, red, threads, slots, sizes>>

ScanMatrix ==
    /\ scan.phase = "ready"
    /\ scan' = [scan EXCEPT
           !.phase = "scanned", !.kind = "matrix",
           !.result = rocblas_check_numerics_ge_matrix_template(
                          scan, "none", scan.m, scan.n, Operand(scan, "A"),
                          scan.batch_count, scan.check_numerics)]
    /\ UNCHANGED <<handle, op, args, pc, locals, ret, events, out, reported_size,
                   kernel_vars, red, threads, slots, sizes>>

ScanGer ==
    /\ scan.phase = "ready"
    /\ scan' = [scan EXCEPT
           !.phase = "scanned", !.kind = "ger",
           !.result = rocblas_ger_check_numerics(
                          scan, scan.m, scan.n, Operand(scan, "A"),
                          Operand(scan, "x"), Operand(scan, "y"),
                          scan.batch_count, scan.check_numerics)]
    /\ UNCHANGED <<handle, op, args, pc, locals, ret, events, out, reported_size,
                   kernel_vars, red, threads, slots, sizes>>

NextNumerics ==
    \/ ScanSetup
    \/ ScanVector
    \/ ScanMatrix
    \/ ScanGer

SpecNumerics == Init /\ [][NextNumerics]_vars

(* ------------------------------ ger_kernel ----------------------------- *)
\* work-group shape DIM_X x DIM_Y lanes, WIN columns per lane; the launcher
\* instantiates the kernel with 32, 32 and 8
DIM_X == 2
DIM_Y == 1
WIN == 2

\* largest m and n, largest batch count and largest number of work-groups of
\* a launch
MaxGerDim == 3
MaxGerBatch == 2
MaxGroups == 2

GerAlphas == {0, 2}
\* increments of x and y: each vector is walked forwards and backwards
GerIncs == {<<1, -2>>, <<-2, 1>>}
GerOffsets == {1}

\* the variables of the host-side calls and of the scan
host_vars == <<handle, op, args, pc, locals, ret, events, out, reported_size, scan>>

\* what the caller stored in device memory: x, y, and A before the launch
x_mem(a) == a + 1
y_mem(a) == 2 * a + 3
A_mem(a) == a

Abs(i) == IF i < 0 THEN -i ELSE i

\* cells one batch item of a vector of len elements spans
VectorCells(len, inc) == (len - 1) * Abs(inc) + 1

\* an operand of batch_count items placed `place` cells apart, passed as a
\* plain pointer with a stride or as an array of pointers
GerOperand(batched, place, batch_count) ==
    [batched |-> batched, base |-> 0,
     table |-> [b \in 0 .. batch_count - 1 |-> b * place]]

\* the calls of rocblas_ger_template the launches are drawn from: alpha is
\* one host scalar or a device array of one scalar per batch item; x and A
\* of two batch items are apart, or the same cells (sx, sA)
GerCallsOf(m, n, bc, pm) ==
    {[m |-> m, n |-> n, batch_count |-> bc, pointer_mode |-> pm,
      alpha |-> al, stride_alpha |-> IF pm = "device" THEN 1 ELSE 0,
      batched |-> bt,
      x |-> GerOperand(bt, IF sx THEN 0 ELSE VectorCells(m, inc[1]) + off, bc),
      offsetx |-> off, incx |-> inc[1],
      stridex |-> IF bt THEN 1 ELSE IF sx THEN 0 ELSE VectorCells(m, inc[1]) + off,
      y |-> GerOperand(bt, VectorCells(n, inc[2]) + off, bc),
      offsety |-> off, incy |-> inc[2],
      stridey |-> IF bt THEN 1 ELSE VectorCells(n, inc[2]) + off,
      A |-> GerOperand(bt, IF sA THEN 0 ELSE (m + 1) * n + off, bc),
      offsetA |-> off, lda |-> m + 1,
      strideA |-> IF bt THEN 1 ELSE IF sA THEN 0 ELSE (m + 1) * n + off] :
        bt \in BOOLEAN,
        sx \in IF bc > 1 THEN BOOLEAN ELSE {FALSE},
        sA \in IF bc > 1 THEN BOOLEAN ELSE {FALSE},
        inc \in GerIncs, off \in GerOffsets,
        al \in [0 .. (IF pm = "device" THEN bc ELSE 1) - 1 -> GerAlphas]}

GerCalls ==
    UNION {GerCallsOf(m, n, bc, pm) :
               m \in 1 .. MaxGerDim, n \in 1 .. MaxGerDim,
               bc \in 1 .. MaxGerBatch, pm \in PointerModes}

\* scalar of batch item idx: the value itself in host pointer mode, element
\* idx * stride of the device array in device pointer mode
load_scalar(alpha_device_host, idx, stride) ==
    IF alpha_device_host.on_device
    THEN alpha_device_host.mem[idx * stride]
    ELSE alpha_device_host.value

\* pointer shift of a vector indexed with tid * inc
ger_shift_unshifted(offset, inc, len) == offset
ger_shift(offset, inc, len) ==
    IF inc < 0 THEN offset - inc * (len - 1) ELSE offset

blocksX_rounds_down(m) == m \div DIM_X
blocksX(m) == (m - 1) \div DIM_X + 1
blocksY(n) == (n - 1) \div (DIM_Y * WIN) + 1

\* lanes of a grid, each <<blockIdx.x, blockIdx.y, blockIdx.z, threadIdx.x,
\* threadIdx.y>>
GridLanes(grid) ==
    (0 .. grid[1] - 1) \X (0 .. grid[2] - 1) \X (0 .. grid[3] - 1)
        \X (0 .. DIM_X - 1) \X (0 .. DIM_Y - 1)

hipBlockIdx_x(l) == l[1]
hipBlockIdx_y(l) == l[2]
hipBlockIdx_z(l) == l[3]
hipThreadIdx_x(l) == l[4]
hipThreadIdx_y(l) == l[5]

\* the work-group of a lane, and the lanes of a work-group
GroupOf(l) == <<l[1], l[2], l[3]>>
GroupLanes(g) == {l \in DOMAIN lanes : GroupOf(l) = g}

\* rocblas_ger_template past its quick return: shifts, grid, launch
GerLaunch ==
    /\ launch.phase = "none"
    /\ \E c \in GerCalls :
        /\ blocksX(c.m) * blocksY(c.n) * c.batch_count <= MaxGroups
        /\ LET grid == <<blocksX(c.m), blocksY(c.n), c.batch_count>>
           IN /\ launch' =
                    [phase |-> "run", call |-> c, m |-> c.m, n |-> c.n,
                     alpha_device_host |->
                         [on_device |-> c.pointer_mode = "device",
                          mem |-> c.alpha, value |-> c.alpha[0]],
                     stride_alpha |-> c.stride_alpha,
                     xa |-> c.x, shiftx |-> ger_shift(c.offsetx, c.incx, c.m),
                     incx |-> c.incx, stridex |-> c.stridex,
                     ya |-> c.y, shifty |-> ger_shift(c.offsety, c.incy, c.n),
                     incy |-> c.incy, stridey |-> c.stridey,
                     Aa |-> c.A, shifta |-> c.offsetA, lda |-> c.lda,
                     strideA |-> c.strideA, grid |-> grid,
                     status |-> "success"]
              /\ lanes' = [l \in GridLanes(grid) |->
                              [pc |-> "entry", alpha |-> 0, x |-> 0, y |-> 0,
                               A |-> 0, x_value |-> 0, i |-> 0, acc |-> 0,
                               y_value |-> 0]]
              /\ shared' = [g \in (0 .. grid[1] - 1) \X (0 .. grid[2] - 1)
                                      \X (0 .. grid[3] - 1) |->
                               [xdata |-> [k \in 0 .. DIM_X - 1 |-> 0],
                                xwriters |-> [k \in 0 .. DIM_X - 1 |-> {}],
                                ydata |-> [k \in 0 .. DIM_Y * WIN - 1 |-> 0],
                                ywriters |-> [k \in 0 .. DIM_Y * WIN - 1 |-> {}]]]
              /\ mem' = [a \in 0 .. c.offsetA + (c.batch_count + 1) * c.lda * c.n
                            |-> A_mem(a)]
              /\ trace' = {}
    /\ UNCHANGED <<host_vars, red, threads, slots, sizes>>

tx(l) == hipBlockIdx_x(l) * DIM_X + hipThreadIdx_x(l)
ty(l) == (hipBlockIdx_y(l) * DIM_Y + hipThreadIdx_y(l)) * WIN
tyi(l) == hipThreadIdx_y(l) * WIN

\* one access of a lane: a read or write of x, y, A, xdata or ydata at an
\* address or index, before or after the lane passed the barrier; a read
\* of xdata or ydata carries the lanes that had written the entry
Access(l, buf, at, kind, writers) ==
    [lane |-> l, buf |-> buf, at |-> at, kind |-> kind,
     synced |-> lanes[l].pc \notin {"entry", "stage", "sync"},
     writers |-> writers]

\* the early return taken also by the lanes beyond row m
ger_kernel_entry_bounds_return(l) ==
    /\ launch.phase = "run" /\ lanes[l].pc = "entry"
    /\ LET z == hipBlockIdx_z(l)
           alpha == load_scalar(launch.alpha_device_host, z, launch.stride_alpha)
       IN IF alpha = 0 \/ tx(l) >= launch.m
          THEN lanes' = [lanes EXCEPT ![l].pc = "exit"]
          ELSE lanes' = [lanes EXCEPT ![l] =
                     [@ EXCEPT
                        !.pc = "stage", !.alpha = alpha,
                        !.x = load_ptr_batch(launch.xa, z, launch.shiftx, launch.stridex),
                        !.y = load_ptr_batch(launch.ya, z, launch.shifty, launch.stridey),
                        !.A = load_ptr_batch(launch.Aa, z, launch.shifta, launch.strideA)]]
    /\ UNCHANGED <<launch, shared, mem, trace, host_vars, red, threads, slots, sizes>>

\* load the scalar, leave if it is zero, else resolve x, y and A
ger_kernel_entry_no_alpha_test(l) ==
    /\ launch.phase = "run" /\ lanes[l].pc = "entry"
    /\ LET z == hipBlockIdx_z(l)
           alpha == load_scalar(launch.alpha_device_host, z, launch.stride_alpha)
       IN lanes' = [lanes EXCEPT ![l] =
                     [@ EXCEPT
                        !.pc = "stage", !.alpha = alpha,
                        !.x = load_ptr_batch(launch.xa, z, launch.shiftx, launch.stridex),
                        !.y = load_ptr_batch(launch.ya, z, launch.shifty, launch.stridey),
                        !.A = load_ptr_batch(launch.Aa, z, launch.shifta, launch.strideA)]]
    /\ UNCHANGED <<launch, shared, mem, trace, host_vars, red, threads, slots, sizes>>
ger_kernel_entry(l) ==
    /\ launch.phase = "run" /\ lanes[l].pc = "entry"
    /\ LET z == hipBlockIdx_z(l)
           alpha == load_scalar(launch.alpha_device_host, z, launch.stride_alpha)
       IN IF alpha = 0
          THEN lanes' = [lanes EXCEPT ![l].pc = "exit"]
          ELSE lanes' = [lanes EXCEPT ![l] =
                     [@ EXCEPT
                        !.pc = "stage", !.alpha = alpha,
                        !.x = load_ptr_batch(launch.xa, z, launch.shiftx, launch.stridex),
                        !.y = load_ptr_batch(launch.ya, z, launch.shifty, launch.stridey),
                        !.A = load_ptr_batch(launch.Aa, z, launch.shifta, launch.strideA)]]
    /\ UNCHANGED <<launch, shared, mem, trace, host_vars, red, threads, slots, sizes>>

\* staging without the guards tx < m and ty + threadIdx.x < n
ger_kernel_stage_unguarded(l) ==
    /\ launch.phase = "run" /\ lanes[l].pc = "stage"
    /\ LET g == GroupOf(l)
           tidx == hipThreadIdx_x(l)
           stage_x == hipThreadIdx_y(l) = 0
           stage_y == tidx < WIN
           x_at == lanes[l].x + tx(l) * launch.incx
           y_at == lanes[l].y + (ty(l) + tidx) * launch.incy
           sx == IF stage_x
                 THEN [shared[g] EXCEPT
                          !.xdata[tidx] = x_mem(x_at),
                          !.xwriters[tidx] = @ \cup {l}]
                 ELSE shared[g]
           sy == IF stage_y
                 THEN [sx EXCEPT
                          !.ydata[tyi(l) + tidx] = y_mem(y_at),
                          !.ywriters[tyi(l) + tidx] = @ \cup {l}]
                 ELSE sx
       IN /\ shared' = [shared EXCEPT ![g] = sy]
          /\ trace' = trace
                \cup (IF stage_x THEN {Access(l, "x", x_at, "read", {})} ELSE {})
                \cup (IF stage_x THEN {Access(l, "xdata", tidx, "write", {})} ELSE {})
                \cup (IF stage_y THEN {Access(l, "y", y_at, "read", {})} ELSE {})
                \cup (IF stage_y THEN {Access(l, "ydata", tyi(l) + tidx, "write", {})}
                      ELSE {})
    /\ lanes' = [lanes EXCEPT ![l].pc = "sync"]
    /\ UNCHANGED <<launch, mem, host_vars, red, threads, slots, sizes>>

\* the lanes of row 0 stage x, the lanes of the first WIN columns stage y
ger_kernel_stage(l) ==
    /\ launch.phase = "run" /\ lanes[l].pc = "stage"
    /\ LET g == GroupOf(l)
           tidx == hipThreadIdx_x(l)
           stage_x == hipThreadIdx_y(l) = 0
           stage_y == tidx < WIN
           x_at == lanes[l].x + tx(l) * launch.incx
           y_at == lanes[l].y + (ty(l) + tidx) * launch.incy
           x_in == tx(l) < launch.m
           y_in == ty(l) + tidx < launch.n
           sx == IF stage_x
                 THEN [shared[g] EXCEPT
                          !.xdata[tidx] = IF x_in THEN x_mem(x_at) ELSE 0,
                          !.xwriters[tidx] = @ \cup {l}]
                 ELSE shared[g]
           sy == IF stage_y
                 THEN [sx EXCEPT
                          !.ydata[tyi(l) + tidx] = IF y_in THEN y_mem(y_at) ELSE 0,
                          !.ywriters[tyi(l) + tidx] = @ \cup {l}]
                 ELSE sx
       IN /\ shared' = [shared EXCEPT ![g] = sy]
          /\ trace' = trace
                \cup (IF stage_x /\ x_in THEN {Access(l, "x", x_at, "read", {})} ELSE {})
                \cup (IF stage_x THEN {Access(l, "xdata", tidx, "write", {})} ELSE {})
                \cup (IF stage_y /\ y_in THEN {Access(l, "y", y_at, "read", {})} ELSE {})
                \cup (IF stage_y THEN {Access(l, "ydata", tyi(l) + tidx, "write", {})}
                      ELSE {})
    /\ lanes' = [lanes EXCEPT ![l].pc = "sync"]
    /\ UNCHANGED <<launch, mem, host_vars, red, threads, slots, sizes>>

\* __syncthreads: a lane goes on once every lane of its work-group has
\* arrived; the lanes outside the m rows have nothing left to do
ger_kernel_sync_no_barrier(l) ==
    /\ launch.phase = "run" /\ lanes[l].pc = "sync"
    /\ lanes' = [lanes EXCEPT ![l].pc = IF tx(l) < launch.m THEN "compute" ELSE "exit"]
    /\ UNCHANGED <<launch, shared, mem, trace, host_vars, red, threads, slots, sizes>>
ger_kernel_sync(l) ==
    /\ launch.phase = "run" /\ lanes[l].pc = "sync"
    /\ \A k \in GroupLanes(GroupOf(l)) : lanes[k].pc \notin {"entry", "stage"}
    /\ lanes' = [lanes EXCEPT ![l].pc = IF tx(l) < launch.m THEN "compute" ELSE "exit"]
    /\ UNCHANGED <<launch, shared, mem, trace, host_vars, red, threads, slots, sizes>>

\* x_value = alpha * xdata[threadIdx.x]
ger_kernel_compute(l) ==
    /\ launch.phase = "run" /\ lanes[l].pc = "compute"
    /\ LET g == GroupOf(l)
           tidx == hipThreadIdx_x(l)
       IN /\ lanes' = [lanes EXCEPT ![l] =
                         [@ EXCEPT !.x_value = lanes[l].alpha * shared[g].xdata[tidx],
                                   !.i = 0,
                                   !.pc = IF ty(l) < launch.n THEN "load" ELSE "exit"]]
          /\ trace' = trace
                \cup {Access(l, "xdata", tidx, "read", shared[g].xwriters[tidx])}
    /\ UNCHANGED <<launch, shared, mem, host_vars, red, threads, slots, sizes>>

\* address of the element of A the lane updates in iteration i
A_at(l) == lanes[l].A + tx(l) + launch.lda * (ty(l) + lanes[l].i)

\* first half of A[...] += ...: read the element of A and ydata[tyi + i]
ger_kernel_load(l) ==
    /\ launch.phase = "run" /\ lanes[l].pc = "load"
    /\ LET g == GroupOf(l)
           k == tyi(l) + lanes[l].i
       IN /\ lanes' = [lanes EXCEPT ![l] =
                         [@ EXCEPT !.acc = mem[A_at(l)],
                                   !.y_value = shared[g].ydata[k],
                                   !.pc = "store"]]
          /\ trace' = trace
                \cup {Access(l, "ydata", k, "read", shared[g].ywriters[k]),
                      Access(l, "A", A_at(l), "read", {})}
    /\ UNCHANGED <<launch, shared, mem, host_vars, red, threads, slots, sizes>>

\* second half: write the sum back, then the next column of the lane
ger_kernel_store(l) ==
    /\ launch.phase = "run" /\ lanes[l].pc = "store"
    /\ mem' = [mem EXCEPT ![A_at(l)] =
                   lanes[l].acc + lanes[l].x_value * lanes[l].y_value]
    /\ trace' = trace \cup {Access(l, "A", A_at(l), "write", {})}
    /\ lanes' = [lanes EXCEPT ![l] =
                   [@ EXCEPT !.i = @ + 1,
                             !.pc = IF lanes[l].i + 1 < WIN
                                       /\ ty(l) + lanes[l].i + 1 < launch.n
                                    THEN "load" ELSE "exit"]]
    /\ UNCHANGED <<launch, shared, host_vars, red, threads, slots, sizes>>

KernelEntry == \E l \in DOMAIN lanes : ger_kernel_entry(l)
KernelStage == \E l \in DOMAIN lanes : ger_kernel_stage(l)
KernelSync == \E l \in DOMAIN lanes : ger_kernel_sync(l)
KernelCompute == \E l \in DOMAIN lanes : ger_kernel_compute(l)
KernelLoad == \E l \in DOMAIN lanes : ger_kernel_load(l)
KernelStore == \E l \in DOMAIN lanes : ger_kernel_store(l)

NextKernel ==
    \/ GerLaunch
    \/ KernelEntry
    \/ KernelStage
    \/ KernelSync
    \/ KernelCompute
    \/ KernelLoad
    \/ KernelStore

SpecKernel == Init /\ [][NextKernel]_vars

\* a step of some lane of the launch
LaneSteps ==
    \/ KernelEntry
    \/ KernelStage
    \/ KernelSync
    \/ KernelCompute
    \/ KernelLoad
    \/ KernelStore

\* the launches whose lanes are followed to their end: where the operands
\* lie does not decide how far a lane gets, so they are strided and apart
LiveCalls == {c \in GerCalls : ~c.batched /\ c.stridex # 0 /\ c.strideA # 0}

GerLaunchLive == GerLaunch /\ launch'.call \in LiveCalls

NextKernelLive ==
    \/ GerLaunchLive
    \/ KernelEntry
    \/ KernelStage
    \/ KernelSync
    \/ KernelCompute
    \/ KernelLoad
    \/ KernelStore

\* the device keeps running the lanes of a launch: while some lane can take
\* a step, a step of some lane is taken
SpecKernelLive == Init /\ [][NextKernelLive]_vars /\ WF_vars(LaneSteps)

(* ------------------------------ reduction ------------------------------ *)
\* largest length and largest batch count of a reduced vector, and lanes of
\* one work-group of the reduction kernel
MaxRedN == 3
MaxRedBatch == 2
NB == 2

RedIncs == {1, 2}
RedShifts == {0, 1}

\* what the caller stored in the device memory of x
x_val(a) == IF a % 2 = 0 THEN -(a + 1) ELSE a + 1

\* the functors rocblas_asum_batched_template instantiates the reduction with
rocblas_fetch_asum(v) == Abs(v)
rocblas_reduce_sum(a, b) == a + b
rocblas_finalize_identity(v) == v

\* work-groups per batch item
rocblas_reduction_kernel_block_count(n) ==
    IF n <= 0 THEN 1 ELSE (n - 1) \div NB + 1

\* the two-pass reduction as it receives its arguments: the scratch buffer
\* comes before the output buffer
rocblas_reduction_strided_batched(n, x, shiftx, incx, stridex, batch_count, workspace, results) ==
    [n |-> n, x |-> x, shiftx |-> shiftx, incx |-> incx, stridex |-> stridex,
     batch_count |-> batch_count, workspace |-> workspace, results |-> results]

rocblas_reduction_template_same_order(n, x, shiftx, incx, stridex, batch_count, results, workspace) ==
    rocblas_reduction_strided_batched(
        n, x, shiftx, incx, stridex, batch_count, results, workspace)
rocblas_reduction_template(n, x, shiftx, incx, stridex, batch_count, results, workspace) ==
    rocblas_reduction_strided_batched(
        n, x, shiftx, incx, stridex, batch_count, workspace, results)

rocblas_asum_batched_template_one_more(n, x, shiftx, incx, batch_count, workspace, results) ==
    rocblas_reduction_template(
        n + 1, x, shiftx, incx, 0, batch_count, results, workspace)
rocblas_asum_batched_template(n, x, shiftx, incx, batch_count, workspace, results) ==
    LET stridex_0 == 0
    IN rocblas_reduction_template(
           n, x, shiftx, incx, stridex_0, batch_count, results, workspace)

\* cells of x one batch item spans
RedCells(n, shiftx, incx) == shiftx + n * incx + 1

\* the calls a caller makes: x behind a pointer array or behind one pointer
\* with a stride, batch items apart or all the same cells
RedCalls ==
    {[phase |-> "ready", n |-> n, batch_count |-> bc, shiftx |-> sh, incx |-> inc,
      batched |-> bt,
      x |-> [batched |-> bt, base |-> 1,
             table |-> [b \in 0 .. bc - 1 |->
                            1 + b * (IF same THEN 0 ELSE RedCells(n, sh, inc))]],
      stridex |-> IF same THEN 0 ELSE RedCells(n, sh, inc)] :
        n \in 0 .. MaxRedN, bc \in 1 .. MaxRedBatch, sh \in RedShifts,
        inc \in RedIncs, bt \in BOOLEAN, same \in BOOLEAN}

\* a buffer of the caller before the call: nothing written in it yet
FreshBuffer(batch_count, n) ==
    [k \in 0 .. batch_count * rocblas_reduction_kernel_block_count(n) - 1 |-> -1]

\* the caller prepares x, a workspace and a results buffer
RedSetup ==
    /\ red.phase = "none"
    /\ \E c \in RedCalls :
          red' = c @@ [frame |-> [n |-> 0], status |-> "none", reads |-> {},
                       writes |-> {},
                       bufs |-> [workspace |-> FreshBuffer(c.batch_count, c.n),
                                 results |-> FreshBuffer(c.batch_count, c.n)]]
    /\ UNCHANGED <<host_vars, kernel_vars, threads, slots, sizes>>

\* rocblas_asum_batched_template on a pointer array
AsumBatched ==
    /\ red.phase = "ready" /\ red.batched
    /\ red' = [red EXCEPT
           !.phase = "called",
           !.frame = rocblas_asum_batched_template(
                         red.n, red.x, red.shiftx, red.incx, red.batch_count,
                         "workspace", "results")]
    /\ UNCHANGED <<host_vars, kernel_vars, threads, slots, sizes>>

\* the strided form: rocblas_reduction_template on one pointer and a stride
AsumStrided ==
    /\ red.phase = "ready" /\ ~red.batched
    /\ red' = [red EXCEPT
           !.phase = "called",
           !.frame = rocblas_reduction_template(
                         red.n, red.x, red.shiftx, red.incx, red.stridex,
                         red.batch_count, "results", "workspace")]
    /\ UNCHANGED <<host_vars, kernel_vars, threads, slots, sizes>>

\* addresses of x that work-group blk of batch item b fetches
BlockReads(f, b, blk) ==
    {load_ptr_batch(f.x, b, f.shiftx, f.stridex) + i * f.incx :
         i \in {j \in 0 .. f.n - 1 : j \div NB = blk}}

RECURSIVE Reduce(_, _)
\* REDUCE folded over FETCH of the values at the addresses S, from the
\* default value 0
Reduce(S, fetched) ==
    IF S = {} THEN 0
    ELSE LET a == CHOOSE a \in S : TRUE
         IN rocblas_reduce_sum(fetched[a], Reduce(S \ {a}, fetched))

\* first pass: every work-group reduces its part of x into the workspace
ReductionPart1 ==
    /\ red.phase = "called"
    /\ LET f == red.frame
           blocks == rocblas_reduction_kernel_block_count(f.n)
           cells == (0 .. f.batch_count - 1) \X (0 .. blocks - 1)
           all == UNION {BlockReads(f, c[1], c[2]) : c \in cells}
           fetched == [a \in all |-> rocblas_fetch_asum(x_val(a))]
       IN red' = [red EXCEPT
              !.phase = "part1",
              !.reads = UNION {{<<c[1], a>> : a \in BlockReads(f, c[1], c[2])} :
                                   c \in cells},
              !.writes = @ \cup {<<"part1", f.workspace>>},
              !.bufs[f.workspace] =
                  [k \in DOMAIN @ |->
                      Reduce(BlockReads(f, k \div blocks, k % blocks), fetched)]]
    /\ UNCHANGED <<host_vars, kernel_vars, threads, slots, sizes>>

RECURSIVE ReduceBlocks(_, _, _)
\* REDUCE folded over the partial results of blocks 0 .. k - 1 of an item
ReduceBlocks(partials, first, k) ==
    IF k = 0 THEN 0
    ELSE rocblas_reduce_sum(partials[first + k - 1], ReduceBlocks(partials, first, k - 1))

\* second pass: one work-group per batch item reduces the partial results,
\* applies FINALIZE and stores the item's result
ReductionPart2 ==
    /\ red.phase = "part1"
    /\ LET f == red.frame
           blocks == rocblas_reduction_kernel_block_count(f.n)
       IN red' = [red EXCEPT
              !.phase = "done", !.status = "success",
              !.writes = @ \cup {<<"part2", f.results>>},
              !.bufs[f.results] =
                  [k \in DOMAIN @ |->
                      IF k < f.batch_count
                      THEN rocblas_finalize_identity(
                               ReduceBlocks(red.bufs[f.workspace], k * blocks, blocks))
                      ELSE @[k]]]
    /\ UNCHANGED <<host_vars, kernel_vars, threads, slots, sizes>>

NextReduction ==
    \/ RedSetup
    \/ AsumBatched
    \/ AsumStrided
    \/ ReductionPart1
    \/ ReductionPart2

SpecReduction == Init /\ [][NextReduction]_vars

(* ---------------------- gemm calls on one shared handle ---------------- *)
\* host threads that call gemm on the same handle
MaxThreads == 2

Threads == 1 .. MaxThreads

\* everything the threads' steps leave alone
thread_vars == <<host_vars, kernel_vars, red, slots, sizes>>

\* another thread is inside a call
OtherInCall(i) ==
    \E j \in Threads : j # i /\ threads.t[j].pc \notin {"idle", "done"}

\* the handle before the calls, and whether the caller serializes the calls
ThreadsSetup ==
    /\ threads.phase = "none"
    /\ \E ser \in BOOLEAN, pm \in PointerModes :
          threads' = [phase |-> "run", serialized |-> ser, original |-> pm,
                      pointer_mode |-> pm,
                      t |-> [i \in Threads |->
                                [pc |-> "idle", seen |-> "unset", saved |-> "unset",
                                 status |-> "none"]]]
    /\ UNCHANGED thread_vars

\* a thread enters gemm; a serializing caller waits for the other call to end
ThreadCall(i) ==
    /\ threads.phase = "run" /\ threads.t[i].pc = "idle"
    /\ threads.serialized => ~OtherInCall(i)
    /\ threads' = [threads EXCEPT !.t[i].pc = "scalars"]
    /\ UNCHANGED thread_vars

\* rocblas_copy_alpha_beta_to_host_if_on_device reads the pointer mode; a
\* failed copy returns before the push
ThreadScalars(i) ==
    /\ threads.phase = "run" /\ threads.t[i].pc = "scalars"
    /\ \E copied \in BOOLEAN :
        /\ copied \/ threads.pointer_mode = "device"
        /\ threads' = [threads EXCEPT
               !.t[i].seen = threads.pointer_mode,
               !.t[i].pc = IF copied THEN "push" ELSE "done",
               !.t[i].status = IF copied THEN "none" ELSE "internal_error"]
    /\ UNCHANGED thread_vars

\* saved_pointer_mode = handle->push_pointer_mode(rocblas_pointer_mode_host)
ThreadPush(i) ==
    /\ threads.phase = "run" /\ threads.t[i].pc = "push"
    /\ threads' = [threads EXCEPT
           !.t[i].saved = threads.pointer_mode,
           !.pointer_mode = "host",
           !.t[i].pc = "body"]
    /\ UNCHANGED thread_vars

\* logging, argument check, scans and dispatch, ending in some status
ThreadBody(i) ==
    /\ threads.phase = "run" /\ threads.t[i].pc = "body"
    /\ \E s \in Statuses :
          threads' = [threads EXCEPT !.t[i].status = s, !.t[i].pc = "return"]
    /\ UNCHANGED thread_vars

\* the return leaves the scope of saved_pointer_mode, which puts the saved
\* pointer mode back
ThreadReturn_keeps_host(i) ==
    /\ threads.phase = "run" /\ threads.t[i].pc = "return"
    /\ threads' = [threads EXCEPT !.t[i].pc = "done"]
    /\ UNCHANGED thread_vars
ThreadReturn(i) ==
    /\ threads.phase = "run" /\ threads.t[i].pc = "return"
    /\ threads' = [threads EXCEPT
           !.pointer_mode = threads.t[i].saved,
           !.t[i].pc = "done"]
    /\ UNCHANGED thread_vars

GemmCalls == \E i \in Threads : ThreadCall(i)
GemmCopies == \E i \in Threads : ThreadScalars(i)
GemmPushes == \E i \in Threads : ThreadPush(i)
GemmBodies == \E i \in Threads : ThreadBody(i)
GemmReturns == \E i \in Threads : ThreadReturn(i)

NextThreads ==
    \/ ThreadsSetup
    \/ GemmCalls
    \/ GemmCopies
    \/ GemmPushes
    \/ GemmBodies
    \/ GemmReturns

SpecThreads == Init /\ [][NextThreads]_vars

(* ------------------- ger_kernel: lanes to elements of A ---------------- *)
\* largest m, n and lda of a grid whose element map is computed
MaxSlotDim == 4

\* element of A, counted from the start of the batch item, that lane l
\* updates in iteration i
ElementIndex_shared_column(l, i, lda) == tx(l) + lda * (tyi(l) + i)
ElementIndex(l, i, lda) == tx(l) + lda * (ty(l) + i)

\* the caller's m, n and lda
SlotsSetup ==
    /\ slots.phase = "none"
    /\ \E m \in 1 .. MaxSlotDim, n \in 1 .. MaxSlotDim, lda \in 1 .. MaxSlotDim + 1 :
          slots' = [phase |-> "ready", m |-> m, n |-> n, lda |-> lda, map |-> <<>>]
    /\ UNCHANGED <<host_vars, kernel_vars, red, threads, sizes>>

\* every (lane, iteration) of one z-slice of the grid that passes the guards
\* tx < m and ty + i < n, with the element it updates
SlotsMap ==
    /\ slots.phase = "ready"
    /\ LET grid == <<blocksX(slots.m), blocksY(slots.n), 1>>
           guarded == {s \in GridLanes(grid) \X (0 .. WIN - 1) :
                          tx(s[1]) < slots.m /\ ty(s[1]) + s[2] < slots.n}
       IN slots' = [slots EXCEPT
              !.phase = "mapped",
              !.map = [s \in guarded |-> ElementIndex(s[1], s[2], slots.lda)]]
    /\ UNCHANGED <<host_vars, kernel_vars, red, threads, sizes>>

NextSlots ==
    \/ SlotsSetup
    \/ SlotsMap

SpecSlots == Init /\ [][NextSlots]_vars

(* ---------------- tbmv_batched: scratch sizes in size_t ----------------- *)
\* bits of rocblas_int in the model; size_t has twice as many, as 64 to 32
IntBits == 8
SizeBits == 2 * IntBits
IntMax == 2 ^ (IntBits - 1) - 1

\* conversion of an integer to size_t
to_size_t(v) == (v + 2 ^ SizeBits) % 2 ^ SizeBits

\* a product with a size_t operand: both sides are converted to size_t
size_mul(a, b) == (to_size_t(a) * to_size_t(b)) % 2 ^ SizeBits

\* a product of two rocblas_int evaluated in rocblas_int
int_mul(a, b) == ((a * b + 2 ^ (IntBits - 1)) % 2 ^ IntBits) - 2 ^ (IntBits - 1)

\* what set_optimal_device_memory_size is handed
tbmv_reported_sizes(n, batch_count) ==
    <<size_mul(size_mul(SizeofT, n), batch_count), size_mul(SizeofPtr, batch_count)>>

\* n * batch_count multiplied as rocblas_int before sizeof(T) is applied
tbmv_requested_sizes_int_product(n, batch_count) ==
    <<size_mul(SizeofT, int_mul(n, batch_count)), size_mul(SizeofPtr, batch_count)>>

\* what device_malloc is handed
tbmv_requested_sizes(n, batch_count) ==
    <<size_mul(size_mul(SizeofT, n), batch_count), size_mul(SizeofPtr, batch_count)>>

\* n and batch_count of calls that pass the argument check and are not
\* quick returns: small ones, and ones whose product does not fit rocblas_int
SizeDims == {1, 2, 3, 2 ^ (IntBits - 2), 2 ^ (IntBits - 2) + 1, IntMax - 1, IntMax}

SizesSetup ==
    /\ sizes.phase = "none"
    /\ \E n \in SizeDims, batch_count \in SizeDims :
          sizes' = [phase |-> "args", n |-> n, batch_count |-> batch_count,
                    reported |-> <<>>, requested |-> <<>>]
    /\ UNCHANGED <<host_vars, kernel_vars, red, threads, slots>>

\* the call made with the handle in size-query mode
SizesQuery ==
    /\ sizes.phase = "args" /\ sizes.reported = <<>>
    /\ sizes' = [sizes EXCEPT
           !.reported = tbmv_reported_sizes(sizes.n, sizes.batch_count)]
    /\ UNCHANGED <<host_vars, kernel_vars, red, threads, slots>>

\* the same call made in execution mode
SizesMalloc ==
    /\ sizes.phase = "args" /\ sizes.requested = <<>>
    /\ sizes' = [sizes EXCEPT
           !.requested = tbmv_requested_sizes(sizes.n, sizes.batch_count)]
    /\ UNCHANGED <<host_vars, kernel_vars, red, threads, slots>>

NextSizes ==
    \/ SizesSetup
    \/ SizesQuery
    \/ SizesMalloc

SpecSizes == Init /\ [][NextSizes]_vars

(* ----------------------- vocabulary of the properties ------------------ *)
Returned == pc = "done"

Did(e) == \E i \in 1 .. Len(events) : events[i] = e

Before(e, f) ==
    \E i, j \in 1 .. Len(events) : i < j /\ events[i] = e /\ events[j] = f

Count(e) == Cardinality({i \in 1 .. Len(events) : events[i] = e})

\* the steps that allocate scratch memory, scan a buffer or launch a kernel
DeviceWork == {"alloc", "setup", "scan_in", "dispatch", "scan_out"}

NoDeviceWork == \A i \in 1 .. Len(events) : events[i] \notin DeviceWork

\* the entry points that wrap their dispatch in the two numerics scans
ScanOps == {"her2", "gemm", "tbmv"}

Calling == op # "none" /\ ~args.handle_null

\* every fill / transpose / diagonal argument of the call is a legal value
EnumsLegal ==
    CASE op = "her2" -> args.uplo \in {"lower", "upper"}
      [] op = "tbmv" -> /\ args.uplo \in {"lower", "upper"}
                        /\ args.transA \in {"none", "transpose"}
                        /\ args.diag \in {"non_unit", "unit"}
      [] op = "gemm" -> /\ args.trans_a \in {"none", "transpose"}
                        /\ args.trans_b \in {"none", "transpose"}
      [] OTHER -> TRUE

\* a geometric constraint is violated: negative extent, zero increment,
\* leading dimension below the governing extent or below 1, negative batch
SizesIllegal ==
    CASE op = "her2" -> \/ args.n < 0 \/ args.batch_count < 0
                        \/ args.incx = 0 \/ args.incy = 0
                        \/ args.lda < 1 \/ args.lda < args.n
      [] op = "tbmv" -> \/ args.n < 0 \/ args.k < 0 \/ args.batch_count < 0
                        \/ args.incx = 0
                        \/ args.lda < 1 \/ args.lda < args.k + 1
      [] op = "gemm" -> \/ args.m < 0 \/ args.n < 0 \/ args.k < 0
                        \/ args.lda < 1 \/ args.ldb < 1 \/ args.ldc < 1
                        \/ args.ldc < args.m
                        \/ args.lda < (IF args.trans_a = "none" THEN args.m ELSE args.k)
                        \/ args.ldb < (IF args.trans_b = "none" THEN args.k ELSE args.n)
      [] op = "ger"  -> \/ args.m < 0 \/ args.n < 0 \/ args.batch_count < 0
                        \/ args.incx = 0 \/ args.incy = 0
                        \/ args.lda < 1 \/ args.lda < args.m
      [] OTHER -> FALSE

\* an extent of the result, or the batch count, is zero
Degenerate ==
    CASE op = "her2" -> args.n = 0 \/ args.batch_count = 0
      [] op = "tbmv" -> args.n = 0 \/ args.batch_count = 0
      [] op = "gemm" -> args.m = 0 \/ args.n = 0
      [] op = "ger"  -> args.m = 0 \/ args.n = 0 \/ args.batch_count = 0
      [] OTHER -> FALSE

\* validation handed back "continue": the call went on to device work
Continued == \E e \in DeviceWork : Did(e)

\* gemm gave up in the device-to-host copy of alpha and beta
ScalarCopyFailed ==
    op = "gemm" /\ Returned /\ Did("copy_scalars") /\ ~Did("validate")

(* -------------------------------- C1 ----------------------------------- *)
\* C1 as stated: her2_strided_batched answers a null handle with
\* invalid_handle; otherwise an invalid fill with invalid_value, whatever the
\* sizes and pointers are; otherwise illegal sizes with invalid_size.
C1_AsStated ==
    (op = "her2" /\ Returned) =>
        /\ args.handle_null => ret = "invalid_handle"
        /\ (~args.handle_null /\ ~EnumsLegal) => ret = "invalid_value"
        /\ (~args.handle_null /\ EnumsLegal /\ SizesIllegal) => ret = "invalid_size"

\* C1, amended: the first-match order null handle, invalid fill, illegal
\* sizes holds for every her2_strided_batched call made while the handle is
\* not in device-memory size-query mode; a null handle is answered with
\* invalid_handle in every mode.
C1_Her2CheckOrder ==
    (op = "her2" /\ Returned) =>
        /\ args.handle_null => ret = "invalid_handle"
        /\ (~args.handle_null /\ ~handle.query /\ ~EnumsLegal)
               => ret = "invalid_value"
        /\ (~args.handle_null /\ ~handle.query /\ EnumsLegal /\ SizesIllegal)
               => ret = "invalid_size"

\* an invalid fill together with a negative extent and all pointers null
C1_Witness ==
    /\ op = "her2" /\ Returned /\ ~args.handle_null /\ ~handle.query
    /\ args.uplo = "full" /\ args.n < 0 /\ args.nulls = Her2Ptrs
    /\ ret = "invalid_value"

(* -------------------------------- C2 ----------------------------------- *)
\* C2: in every operation called in execution mode with a valid handle and
\* legal enums, violated geometric constraints are answered with
\* invalid_size whichever pointers are null: the call reaches its size
\* check and the size check precedes the pointer check.
C2_SizeBeforePointer ==
    (Calling /\ ~handle.query /\ EnumsLegal /\ SizesIllegal) =>
        /\ pc # "crashed"
        /\ (Returned /\ ~ScalarCopyFailed) => ret = "invalid_size"

\* illegal sizes with every pointer null, answered with invalid_size
C2_Witness ==
    /\ op = "ger" /\ Returned /\ SizesIllegal /\ args.nulls = GerPtrs
    /\ ret = "invalid_size"

(* -------------------------------- C3 ----------------------------------- *)
\* C3: in every operation called in execution mode with a valid handle,
\* legal enums and legal sizes, a zero batch count or a zero extent is
\* answered with success whichever pointers are null, and no kernel is
\* launched.
C3_QuickReturn ==
    (Calling /\ ~handle.query /\ EnumsLegal /\ ~SizesIllegal /\ Degenerate) =>
        /\ pc # "crashed"
        /\ (Returned /\ ~ScalarCopyFailed) => ret = "success" /\ NoDeviceWork

\* a zero extent with every pointer null, answered with success
C3_Witness ==
    /\ op = "her2" /\ Returned /\ ~args.handle_null /\ ~handle.query
    /\ args.n = 0 /\ args.nulls = Her2Ptrs
    /\ ret = "success" /\ NoDeviceWork

(* -------------------------------- C4 ----------------------------------- *)
\* C4: in every operation called in execution mode with a valid handle,
\* legal enums and a legal non-degenerate problem, a null required pointer
\* is answered with invalid_pointer, and with every pointer non-null the
\* validator continues and the call goes on to its device work.
C4_PointerRule ==
    (Calling /\ ~handle.query /\ EnumsLegal /\ ~SizesIllegal /\ ~Degenerate) =>
        /\ pc # "crashed"
        /\ (Returned /\ ~ScalarCopyFailed) =>
               /\ args.nulls # {} => ret = "invalid_pointer" /\ NoDeviceWork
               /\ args.nulls = {} => Continued

\* a legal non-degenerate tbmv_batched with a null x
C4_Witness ==
    /\ op = "tbmv" /\ Returned /\ ~args.handle_null /\ ~handle.query
    /\ EnumsLegal /\ ~SizesIllegal /\ ~Degenerate
    /\ args.nulls = {"x"} /\ ret = "invalid_pointer"

(* -------------------------------- C5 ----------------------------------- *)
\* C5: a call that returns a validation status (invalid_handle,
\* invalid_value, invalid_size, invalid_pointer) or the success of a quick
\* return has allocated no workspace, run no scan, launched no kernel and
\* left the output operand as it was.
C5_NothingBeforeVerdict ==
    (op # "none" /\ Returned
        /\ \/ ret \in {"invalid_handle", "invalid_value", "invalid_size",
                       "invalid_pointer"}
           \/ (ret = "success" /\ ~args.handle_null /\ Degenerate))
    => (NoDeviceWork /\ out = "orig" /\ locals.w_mem = "unset")

\* the launcher called with a zero extent returns success and launches nothing
C5_Witness ==
    /\ op = "ger" /\ Returned /\ ~Did("validate")
    /\ Degenerate /\ ret = "success" /\ NoDeviceWork /\ out = "orig"

(* -------------------------------- C6 ----------------------------------- *)
\* C6: in her2_strided_batched, gemm and tbmv_batched the steps come in the
\* order validation, input scan, dispatch, output scan, return, each at
\* most once; with numerics checking enabled the dispatch is preceded by a
\* successful input scan and a successful dispatch is followed by the
\* output scan before the call returns; with checking disabled no scan runs.
C6_ScanOrder ==
    op \in ScanOps =>
        /\ \A e \in {"validate", "scan_in", "dispatch", "scan_out"} : Count(e) <= 1
        /\ Did("scan_in") =>
               Before("validate", "scan_in") /\ locals.check_numerics # "no_check"
        /\ Did("dispatch") =>
               /\ Before("validate", "dispatch")
               /\ locals.check_numerics # "no_check" =>
                      Before("scan_in", "dispatch") /\ locals.input_check = "success"
        /\ Did("scan_out") =>
               /\ Before("dispatch", "scan_out")
               /\ locals.status = "success"
               /\ locals.check_numerics # "no_check"
        /\ locals.check_numerics \in {"unset", "no_check"} =>
               ~Did("scan_in") /\ ~Did("scan_out")
        /\ (Returned /\ locals.status = "success"
                /\ locals.check_numerics # "no_check") =>
               events[Len(events)] = "scan_out"

\* a checked her2 call that ran all four steps and returned success
C6_Witness ==
    /\ op = "her2" /\ Returned /\ ret = "success"
    /\ locals.check_numerics = "info"
    /\ Before("validate", "scan_in") /\ Before("scan_in", "dispatch")
    /\ Before("dispatch", "scan_out")

(* -------------------------------- C7 ----------------------------------- *)
\* C7: when the input scan hands back a status other than success, the call
\* returns that status at once: no dispatch, no output scan, output operand
\* unmodified.
C7_InputScanFailure ==
    (op \in ScanOps /\ locals.input_check \notin {"unset", "success"}) =>
        /\ Returned /\ ret = locals.input_check
        /\ ~Did("dispatch") /\ ~Did("scan_out")
        /\ out = "orig"

\* a gemm call whose input scan failed
C7_Witness ==
    /\ op = "gemm" /\ Returned
    /\ locals.input_check = "check_numerics_fail"
    /\ ret = "check_numerics_fail" /\ ~Did("dispatch")

(* -------------------------------- C8 ----------------------------------- *)
\* both scans succeeded, or did not run because checking is disabled
ScansSucceeded ==
    IF locals.check_numerics = "no_check"
    THEN locals.input_check = "unset" /\ locals.output_check = "unset"
    ELSE locals.input_check = "success" /\ locals.output_check = "success"

OutputScanFailed ==
    locals.status = "success" /\ locals.output_check \notin {"unset", "success"}

FullSuccess ==
    /\ Did("validate") /\ Did("dispatch")
    /\ locals.status = "success"
    /\ ScansSucceeded

\* C8 as stated: a failed output scan after a successful dispatch yields
\* check_numerics_fail with the output left written; and the returned
\* status is success only if validation continued, both scans succeeded
\* and dispatch succeeded.
C8_AsStated ==
    (op \in ScanOps /\ Returned /\ ~args.handle_null /\ ~handle.query) =>
        /\ OutputScanFailed => ret = "check_numerics_fail" /\ out = "written"
        /\ ret = "success" => FullSuccess

\* C8, amended: a failed output scan after a successful dispatch yields
\* check_numerics_fail with the output left written; outside size-query
\* mode the returned status is success only on a quick return (zero extent
\* or zero batch count, nothing dispatched) or when validation continued,
\* both scans succeeded and dispatch succeeded.
C8_SuccessMeans ==
    (op \in ScanOps /\ Returned /\ ~args.handle_null /\ ~handle.query) =>
        /\ OutputScanFailed => ret = "check_numerics_fail" /\ out = "written"
        /\ ret = "success" => \/ FullSuccess
                              \/ Degenerate /\ NoDeviceWork

\* a tbmv_batched call whose output scan failed after the kernel ran
C8_Witness ==
    /\ op = "tbmv" /\ Returned /\ OutputScanFailed
    /\ ret = "check_numerics_fail" /\ out = "written"

(* -------------------------------- C9 ----------------------------------- *)
\* the operands a scan of the given kind goes through
ScannedBuffers(kind) ==
    CASE kind = "vector" -> {"x"}
      [] kind = "matrix" -> {"A"}
      [] kind = "ger" -> {"A", "x", "y"}

\* the injected NaN / Inf sits on an element of the operand, not in the
\* space the offset, the increment or the leading dimension leaves unused
BadIsElement ==
    /\ scan.bad.buf # "none"
    /\ scan.bad.cell >= scan.offset
    /\ CASE scan.bad.buf = "A" -> (scan.bad.cell - scan.offset) % scan.lda < scan.m
         [] scan.bad.buf = "x" -> (scan.bad.cell - scan.offset) % scan.inc_x = 0
         [] scan.bad.buf = "y" -> (scan.bad.cell - scan.offset) % scan.inc_y = 0

\* C9: in check mode "fail" a vector scan, a general-matrix scan and the ger
\* scan built from them return check_numerics_fail exactly when an element
\* of a scanned operand, in any batch item, under plain or pointer-array
\* addressing, is NaN or Inf; all-finite and all-zero buffers return success.
C9_ScanDetects ==
    (scan.phase = "scanned" /\ scan.check_numerics = "fail") =>
        /\ scan.result \in {"success", "check_numerics_fail"}
        /\ scan.result = "check_numerics_fail" <=>
               (BadIsElement /\ scan.bad.buf \in ScannedBuffers(scan.kind))

\* an Inf in the last element of y in the last batch item of a pointer-array
\* operand, found by the ger scan
C9_Witness ==
    /\ scan.phase = "scanned" /\ scan.kind = "ger" /\ scan.check_numerics = "fail"
    /\ scan.batched /\ scan.batch_count = MaxScanBatch /\ scan.m < scan.n
    /\ scan.bad.buf = "y" /\ scan.bad.cls = "inf"
    /\ scan.bad.item = MaxScanBatch - 1
    /\ scan.bad.cell = scan.offset + (scan.n - 1) * scan.inc_y
    /\ scan.result = "check_numerics_fail"

(* -------------------------------- C10 ---------------------------------- *)
\* C10: with the handle in size-query mode a her2_strided_batched, gemm or
\* tbmv_batched call allocates nothing, scans nothing and launches nothing;
\* her2 and gemm report a required size of zero, and tbmv_batched, once its
\* arguments are validated, reports sizeof(T)*n*batch_count and
\* sizeof(T*)*batch_count.
C10_SizeQuery ==
    (op \in ScanOps /\ handle.query) =>
        /\ NoDeviceWork /\ out = "orig" /\ locals.w_mem = "unset"
        /\ (Returned /\ ~args.handle_null /\ op \in {"her2", "gemm"}) =>
               reported_size = <<0>>
        /\ (Returned /\ ~args.handle_null /\ op = "tbmv") =>
               IF EnumsLegal /\ ~SizesIllegal /\ ~Degenerate /\ args.nulls = {}
               THEN reported_size = <<SizeofT * args.n * args.batch_count,
                                      SizeofPtr * args.batch_count>>
               ELSE reported_size = <<>>

\* a validated tbmv_batched size query
C10_Witness ==
    /\ op = "tbmv" /\ handle.query /\ Returned
    /\ args.n = MaxN /\ args.batch_count = MaxBatch
    /\ reported_size = <<SizeofT * MaxN * MaxBatch, SizeofPtr * MaxBatch>>
    /\ NoDeviceWork

(* -------------------------------- C11 ---------------------------------- *)
\* C11: a fault thrown inside the implementation of her2_strided_batched,
\* gemm or tbmv_batched never leaves the C entry point: the call returns,
\* and the status it returns is internal_error.
C11_NoExceptionEscapes ==
    /\ pc # "escaped"
    /\ locals.exception => Returned /\ ret = "internal_error"

\* the gemm template throws and the caller gets internal_error
C11_Witness ==
    /\ op = "gemm" /\ locals.exception /\ Returned
    /\ events[Len(events)] = "dispatch" /\ ret = "internal_error"

(* -------------------------------- C12 ---------------------------------- *)
\* C12: every call of a public operation, in execution mode and in
\* size-query mode, ends by returning one status of the closed enumeration;
\* no status is handed back before the call ends, and the validator's
\* verdict "continue" is never what the caller gets.
C12_ClosedStatus ==
    op # "none" =>
        /\ pc \in {"done", "crashed"} => ret \in Statuses
        /\ pc \notin {"done", "crashed"} => ret = "none"
        /\ ret # "continue"

\* a gemm call whose validator said continue, returning a status of the
\* enumeration
C12_Witness ==
    /\ op = "gemm" /\ Returned /\ rocblas_gemm_arg_check(args) = "continue"
    /\ ret \in Statuses

(* -------------------------------- C20 ---------------------------------- *)
\* the steps of a call that read, copy or allocate device memory
DeviceTouch == DeviceWork \cup {"copy_scalars"}

\* C20: in her2_strided_batched, gemm and tbmv_batched, whatever the pointer
\* mode of the handle, every device read, copy and allocation of the call
\* comes after the argument check has returned its verdict.
C20_VerdictFirst ==
    op \in ScanOps =>
        \A j \in 1 .. Len(events) :
            events[j] \in DeviceTouch =>
                \E i \in 1 .. j - 1 : events[i] = "validate"

\* gemm in device pointer mode reaching its argument check
C20_Witness ==
    /\ op = "gemm" /\ Did("copy_scalars") /\ Did("validate")
    /\ ret = "invalid_size"

\* the same statement for the two operations that have no scalar copy
C20_OtherOps == op \in {"her2", "tbmv"} => C20_VerdictFirst

(* -------------------------------- C13 ---------------------------------- *)
\* where the caller's batch item b of an operand starts: base + offset +
\* b * stride behind a plain pointer, pointer_table[b] + offset behind a
\* pointer array
ItemAt(p, offset, stride, b) ==
    IF p.batched THEN p.table[b] + offset ELSE p.base + offset + b * stride

\* distance of element i of a vector of len elements from the start of its
\* batch item: a negative increment walks the cells backwards
ElementAt(inc, len, i) == IF inc < 0 THEN (len - 1 - i) * (-inc) ELSE i * inc

AllExited == launch.phase = "run" /\ \A l \in DOMAIN lanes : lanes[l].pc = "exit"

\* C13: every access of a lane of work-group z = b to x, y or A goes to batch
\* item b of the operand as the caller passed it to rocblas_ger_template:
\* row tx of x, column ty + threadIdx.x of y, element (tx, ty + i) of A,
\* counted from base + offset + b * stride or from pointer_table[b] + offset.
C13_BatchAddressing ==
    \A e \in trace :
        LET l == e.lane
            b == hipBlockIdx_z(l)
            c == launch.call
        IN /\ e.buf = "x" =>
                e.at = ItemAt(c.x, c.offsetx, c.stridex, b)
                           + ElementAt(c.incx, c.m, tx(l))
           /\ e.buf = "y" =>
                e.at = ItemAt(c.y, c.offsety, c.stridey, b)
                           + ElementAt(c.incy, c.n, ty(l) + hipThreadIdx_x(l))
           /\ e.buf = "A" =>
                \E i \in 0 .. WIN - 1 :
                    /\ ty(l) + i < c.n
                    /\ e.at = ItemAt(c.A, c.offsetA, c.strideA, b)
                                  + tx(l) + c.lda * (ty(l) + i)

\* a finished launch over two batch items behind pointer arrays, x walked
\* backwards, in which work-group 1 read x and y and wrote A
C13_Witness ==
    /\ AllExited
    /\ launch.call.batched /\ launch.call.batch_count = 2
    /\ launch.call.incx < 0 /\ launch.call.m > 1
    /\ \A buf \in {"x", "y", "A"} :
          \E e \in trace : e.buf = buf /\ hipBlockIdx_z(e.lane) = 1

(* -------------------------------- C17 ---------------------------------- *)
\* the scalar the caller passed for batch item b
AlphaOf(c, b) ==
    IF c.pointer_mode = "device" THEN c.alpha[b * c.stride_alpha] ELSE c.alpha[0]

\* the cells of A that belong to batch item b
ItemCellsOfA(c, b) ==
    {ItemAt(c.A, c.offsetA, c.strideA, b) + i + c.lda * j :
         i \in 0 .. c.m - 1, j \in 0 .. c.n - 1}

\* C17: when alpha is zero for a batch item, in host and in device pointer
\* mode, rocblas_ger_template returns success, no lane of that item's
\* work-groups reads x or y or touches A, and the item's A keeps its value
\* in every cell that no other batch item shares.
C17_AlphaZero ==
    launch.phase = "run" =>
        \A b \in 0 .. launch.call.batch_count - 1 :
            AlphaOf(launch.call, b) = 0 =>
                /\ launch.status = "success"
                /\ \A e \in trace : hipBlockIdx_z(e.lane) # b
                /\ \A a \in ItemCellsOfA(launch.call, b) :
                      (\A o \in 0 .. launch.call.batch_count - 1 :
                           o # b => a \notin ItemCellsOfA(launch.call, o))
                      => mem[a] = A_mem(a)

\* a finished launch in device pointer mode whose item 0 has alpha zero and
\* whose item 1, with a matrix of its own, was updated
C17_Witness ==
    /\ AllExited
    /\ launch.call.pointer_mode = "device" /\ launch.call.batch_count = 2
    /\ AlphaOf(launch.call, 0) = 0 /\ AlphaOf(launch.call, 1) # 0
    /\ ItemCellsOfA(launch.call, 0) \cap ItemCellsOfA(launch.call, 1) = {}
    /\ \E a \in ItemCellsOfA(launch.call, 1) : mem[a] # A_mem(a)
    /\ \A a \in ItemCellsOfA(launch.call, 0) : mem[a] = A_mem(a)

(* -------------------------------- C19 ---------------------------------- *)
\* C19: every write of xdata and ydata is made by a lane that has not yet
\* passed the barrier and every read by a lane that has; the entry a lane
\* reads had been written by then, by exactly one lane, of the reader's own
\* work-group; x and y themselves are read only before the barrier, so the
\* compute phase sees them only through the staged copies.
C19_StageThenRead ==
    \A e \in trace :
        /\ e.buf \in {"xdata", "ydata"} /\ e.kind = "write" => ~e.synced
        /\ e.buf \in {"xdata", "ydata"} /\ e.kind = "read" =>
              /\ e.synced
              /\ Cardinality(e.writers) = 1
              /\ \A w \in e.writers : GroupOf(w) = GroupOf(e.lane)
        /\ e.buf \in {"x", "y"} => e.kind = "read" /\ ~e.synced

\* a finished launch in which a lane read an entry of ydata that another
\* lane of its work-group had staged
C19_Witness ==
    /\ AllExited
    /\ \E e \in trace :
          /\ e.buf = "ydata" /\ e.kind = "read"
          /\ e.lane \notin e.writers
          /\ \E f \in trace : f.buf = "xdata" /\ f.kind = "read" /\ f.lane = e.lane

(* -------------------------------- C18 ---------------------------------- *)
RECURSIVE SumOf(_, _)
\* sum of f over the finite set S
SumOf(f, S) ==
    IF S = {} THEN 0
    ELSE LET e == CHOOSE e \in S : TRUE IN f[e] + SumOf(f, S \ {e})

\* what batch item b adds to element (i, j) of its A: alpha * x[i] * y[j]
Contribution(c, b, i, j) ==
    AlphaOf(c, b)
        * x_mem(ItemAt(c.x, c.offsetx, c.stridex, b) + ElementAt(c.incx, c.m, i))
        * y_mem(ItemAt(c.y, c.offsety, c.stridey, b) + ElementAt(c.incy, c.n, j))

\* everything the launch adds to the cell a of device memory
Contributions(c, a) ==
    LET hits == {h \in (0 .. c.batch_count - 1) \X (0 .. c.m - 1) \X (0 .. c.n - 1) :
                     ItemAt(c.A, c.offsetA, c.strideA, h[1]) + h[2] + c.lda * h[3] = a}
    IN SumOf([h \in hits |-> Contribution(c, h[1], h[2], h[3])], hits)

\* the matrices of two batch items share cells
AliasedA(c) ==
    \E b, o \in 0 .. c.batch_count - 1 :
        b # o /\ ItemCellsOfA(c, b) \cap ItemCellsOfA(c, o) # {}

\* C18: when the launch is over, every cell of A holds its original value
\* plus the sum of all contributions of all batch items to it, also when
\* the matrices of several batch items are the same cells (stride 0, equal
\* pointers), whatever the interleaving of the work-groups.
C18_AtomicAccumulation ==
    AllExited => \A a \in DOMAIN mem : mem[a] = A_mem(a) + Contributions(launch.call, a)

\* a finished launch of two batch items, both with alpha non-zero, updating
\* the same matrix
C18_Witness ==
    /\ AllExited
    /\ launch.call.batch_count = 2 /\ AliasedA(launch.call)
    /\ \A b \in 0 .. 1 : AlphaOf(launch.call, b) # 0
    /\ \E e \in trace : e.buf = "A" /\ e.kind = "write" /\ hipBlockIdx_z(e.lane) = 1

\* the same statement for launches whose batch items have matrices apart
C18_WithoutAliasing ==
    AllExited /\ ~AliasedA(launch.call) => C18_AtomicAccumulation

(* -------------------------------- C14 ---------------------------------- *)
\* the result of the two passes for batch item b of a call frame
ReductionResult(f, b) ==
    LET blocks == rocblas_reduction_kernel_block_count(f.n)
        all == UNION {BlockReads(f, b, k) : k \in 0 .. blocks - 1}
        fetched == [a \in all |-> rocblas_fetch_asum(x_val(a))]
        partials == [k \in 0 .. blocks - 1 |-> Reduce(BlockReads(f, b, k), fetched)]
    IN rocblas_finalize_identity(ReduceBlocks(partials, 0, blocks))

\* the same data passed the other way: the pointer array base + b * stride
\* for one pointer with a stride; for a pointer array, the pointer of item 0
\* with the distance of the items as the stride
OtherConvention(f) ==
    IF f.x.batched
    THEN [f EXCEPT !.x = [batched |-> FALSE, base |-> f.x.table[0], table |-> <<>>],
                   !.stridex = IF f.batch_count > 1
                               THEN f.x.table[1] - f.x.table[0] ELSE 0]
    ELSE [f EXCEPT !.x = [batched |-> TRUE, base |-> 0,
                          table |-> [b \in 0 .. f.batch_count - 1 |->
                                         f.x.base + b * f.stridex]],
                   !.stridex = 0]

C15_ZeroLength ==
    (red.phase \in {"part1", "done"} /\ red.n = 0) =>
        /\ red.reads = {}
        /\ red.phase = "done" =>
              /\ red.status = "success"
              /\ \A b \in 0 .. red.batch_count - 1 : red.bufs.results[b] = 0

\* a finished asum over a pointer array of two empty vectors
C15_Witness ==
    /\ red.phase = "done" /\ red.n = 0 /\ red.batched /\ red.batch_count = 2
    /\ red.bufs.results[0] = 0 /\ red.bufs.results[1] = 0

(* -------------------------------- C16 ---------------------------------- *)
\* sum of the magnitudes of the n elements of batch item b as the caller
\* laid them out
AbsSum(c, b) ==
    LET at == [i \in 0 .. c.n - 1 |->
                   Abs(x_val(ItemAt(c.x, c.shiftx, c.stridex, b) + i * c.incx))]
    IN SumOf(at, DOMAIN at)

\* C16: the asum reduction hands the caller's workspace to the two-pass
\* reduction as its scratch buffer and the caller's results buffer as its
\* output; the first pass writes only the workspace, the second only the
\* results buffer, and at the end the results buffer holds, for every batch
\* item, the sum of the magnitudes of its elements, unchanged by finalize.
C16_ResultsAndWorkspace ==
    /\ red.phase \in {"called", "part1", "done"} =>
          red.frame.results = "results" /\ red.frame.workspace = "workspace"
    /\ red.phase = "part1" =>
          /\ red.writes = {<<"part1", "workspace">>}
          /\ \A k \in DOMAIN red.bufs.results : red.bufs.results[k] = -1
    /\ red.phase = "done" =>
          /\ red.writes = {<<"part1", "workspace">>, <<"part2", "results">>}
          /\ \A b \in 0 .. red.batch_count - 1 : red.bufs.results[b] = AbsSum(red, b)

\* a finished rocblas_asum_batched_template over two vectors of more than
\* one work-group each, with negative elements
C16_Witness ==
    /\ red.phase = "done" /\ red.batched /\ red.batch_count = 2 /\ red.n > NB
    /\ red.bufs.results[1] = AbsSum(red, 1) /\ AbsSum(red, 1) > 0
    /\ red.bufs.workspace # red.bufs.results

(* -------------------------------- C21 ---------------------------------- *)
\* device_malloc of tbmv_batched came back empty
AcquisitionFailed ==
    op = "tbmv" /\ Did("alloc") /\ locals.w_mem = "unset" /\ ~locals.exception

\* C21: in tbmv_batched the workspace is requested only after the argument
\* check said continue and both A and x were found non-null; when the
\* request fails the call returns memory_error, and the pointer-table
\* setup, the numerics scans and the compute kernel are never launched.
C21_MemoryError ==
    op = "tbmv" =>
        /\ Did("alloc") =>
              /\ Before("validate", "alloc")
              /\ rocblas_tbmv_arg_check(args) = "continue"
              /\ args.nulls = {}
        /\ AcquisitionFailed =>
              /\ Returned /\ ret = "memory_error"
              /\ \A e \in {"setup", "scan_in", "dispatch", "scan_out"} : ~Did(e)

\* a tbmv_batched call that ended in the failed device_malloc
C21_Witness ==
    /\ AcquisitionFailed /\ Returned /\ ret = "memory_error"
    /\ events[Len(events)] = "alloc" /\ out = "orig"

(* -------------------------------- C22 ---------------------------------- *)
AllCallsOver == threads.phase = "run" /\ \A i \in Threads : threads.t[i].pc = "done"

\* C22: the handle is not locked; when the caller serializes its gemm calls
\* on one handle, the handle's pointer mode after the calls is its value
\* before them. (Without serialization the calls can leave it changed.)
C22_SerializedCallsRestore ==
    (AllCallsOver /\ threads.serialized) => threads.pointer_mode = threads.original

\* two unserialized gemm calls on a handle in device pointer mode, both
\* over, that left the handle in host pointer mode
C22_Witness ==
    /\ AllCallsOver /\ ~threads.serialized
    /\ threads.original = "device" /\ threads.pointer_mode = "host"
    /\ \A i \in Threads : threads.t[i].saved # "unset"

\* every thread of a serialized run went through push and return
C22_SerializedWitness ==
    /\ AllCallsOver /\ threads.serialized /\ threads.original = "device"
    /\ \A i \in Threads : threads.t[i].saved = "device"

(* -------------------------------- C23 ---------------------------------- *)
\* a gemm call in execution mode on a legal, non-degenerate problem with a
\* null alpha or beta
NullScalarCall ==
    /\ op = "gemm" /\ Calling /\ ~handle.query
    /\ EnumsLegal /\ ~SizesIllegal /\ ~Degenerate
    /\ {"alpha", "beta"} \cap args.nulls # {}

\* C23: whatever the logging mode of the handle, a gemm call on a
\* non-degenerate problem with a null alpha or beta dereferences no null
\* scalar pointer and, unless the copy of the other scalar failed, returns
\* invalid_pointer.
C23_NullScalar ==
    NullScalarCall =>
        /\ ~Did("null_deref") /\ pc # "crashed"
        /\ (Returned /\ ~ScalarCopyFailed) => ret = "invalid_pointer"

\* the same call with profile logging off, answered with invalid_pointer
C23_Witness ==
    /\ NullScalarCall /\ Returned /\ "log_profile" \notin locals.layer_mode
    /\ Did("validate") /\ ret = "invalid_pointer"

\* the same statement for the handles whose logging mode has no log_profile
C23_WithoutProfileLogging ==
    (Did("validate") /\ "log_profile" \notin locals.layer_mode) => C23_NullScalar

(* -------------------------------- C24 ---------------------------------- *)
\* the verdict of the operation's validator on the arguments of the call
Verdict ==
    CASE op = "her2" -> her2_arg_status(args)
      [] op = "tbmv" -> rocblas_tbmv_arg_check(args)
      [] op = "gemm" -> rocblas_gemm_arg_check(args)

\* a status a step handed back that is not success
Failed(s) == s \notin {"unset", "success"}

\* C24: in her2_strided_batched, gemm and tbmv_batched a status other than
\* success from the template is returned as it is and no output scan
\* follows; a failed input or output scan, a validator verdict other than
\* continue and a failed workspace setup are what the caller gets; a call
\* returns success only if no step it ran failed.
C24_NoDowngrade ==
    (op \in ScanOps /\ Returned /\ ~locals.exception) =>
        /\ Failed(locals.status) => ret = locals.status /\ ~Did("scan_out")
        /\ Failed(locals.input_check) => ret = locals.input_check
        /\ Failed(locals.output_check) => ret = locals.output_check
        /\ (Did("validate") /\ Verdict # "continue") => ret = Verdict
        /\ events # <<>> /\ events[Len(events)] = "setup" => Failed(ret)
        /\ ret = "success" =>
              /\ ~Failed(locals.status) /\ ~Failed(locals.input_check)
              /\ ~Failed(locals.output_check)
              /\ Did("validate") => Verdict \in {"continue", "success"}

\* a tbmv_batched call with numerics checking on whose launcher failed
C24_Witness ==
    /\ op = "tbmv" /\ Returned /\ locals.check_numerics # "no_check"
    /\ Did("scan_in") /\ Failed(locals.status) /\ ret = locals.status
    /\ ~Did("scan_out")

(* -------------------------------- C25 ---------------------------------- *)
\* the writes of A that the lanes of batch item b made at address a
WritesOfAt(b, a) ==
    {e \in trace : e.buf = "A" /\ e.kind = "write"
                      /\ hipBlockIdx_z(e.lane) = b /\ e.at = a}

\* C25: a launch for m, n, batch_count >= 1 has ceil(m / DIM_X) by
\* ceil(n / (DIM_Y * WIN)) work-groups per batch item and one z-slice per
\* item; the lanes of an item with non-zero alpha touch only the elements
\* (i, j), i < m, j < n, of that item's A, every store adds alpha * x[i] *
\* y[j] to the value it loaded, and when all lanes are done every such
\* element has been stored exactly once; a cell that belongs to no element
\* (padding rows and columns) keeps its value, and when the items' matrices
\* are apart every element ends as its original value plus alpha * x[i] * y[j].
C25_RankOneUpdate ==
    launch.phase = "run" =>
        LET c == launch.call
            items == 0 .. c.batch_count - 1
        IN /\ launch.grid[3] = c.batch_count
           /\ (launch.grid[1] - 1) * DIM_X < c.m /\ c.m <= launch.grid[1] * DIM_X
           /\ (launch.grid[2] - 1) * DIM_Y * WIN < c.n
           /\ c.n <= launch.grid[2] * DIM_Y * WIN
           /\ \A e \in trace :
                 e.buf = "A" => e.at \in ItemCellsOfA(c, hipBlockIdx_z(e.lane))
           /\ \A l \in DOMAIN lanes :
                 lanes[l].pc = "store" =>
                     lanes[l].x_value * lanes[l].y_value
                         = Contribution(c, hipBlockIdx_z(l), tx(l), ty(l) + lanes[l].i)
           /\ \A a \in DOMAIN mem :
                 (\A b \in items : a \notin ItemCellsOfA(c, b)) => mem[a] = A_mem(a)
           /\ AllExited =>
                 /\ \A b \in items : \A a \in ItemCellsOfA(c, b) :
                       Cardinality(WritesOfAt(b, a))
                           = IF AlphaOf(c, b) # 0 THEN 1 ELSE 0
                 /\ ~AliasedA(c) =>
                       \A a \in DOMAIN mem : mem[a] = A_mem(a) + Contributions(c, a)

\* a finished launch whose m rows need two work-groups: every element
\* updated, the padding row untouched
C25_Witness ==
    /\ AllExited /\ launch.grid[1] = 2 /\ launch.call.n = 2
    /\ AlphaOf(launch.call, 0) # 0
    /\ \A a \in ItemCellsOfA(launch.call, 0) : mem[a] # A_mem(a)
    /\ \E a \in DOMAIN mem : a \notin ItemCellsOfA(launch.call, 0) /\ mem[a] = A_mem(a)

(* -------------------------------- C26 ---------------------------------- *)
\* two different (lane, iteration) slots update the same element
Collision ==
    \E s, t \in DOMAIN slots.map : s # t /\ slots.map[s] = slots.map[t]

\* C26: with lda >= m, which rocblas_ger_arg_check requires, no two
\* different (work-group, lane, iteration) slots of one batch item update
\* the same element of A, and the slots cover exactly the m * n elements.
C26_Injective ==
    (slots.phase = "mapped" /\ slots.lda >= slots.m) =>
        /\ ~Collision
        /\ Cardinality(DOMAIN slots.map) = slots.m * slots.n

\* a grid of several work-groups in x and in y with lda = m
C26_Witness ==
    /\ slots.phase = "mapped" /\ slots.lda = slots.m
    /\ slots.m > DIM_X /\ slots.n > DIM_Y * WIN /\ ~Collision

\* with lda < m two slots can meet, so the condition is needed
C26_NeedsLda == slots.phase = "mapped" /\ slots.lda < slots.m => ~Collision

\* in a launch, lanes of one batch item never access the same element of A
C26_LanesDisjoint ==
    \A e, f \in trace :
        (e.buf = "A" /\ f.buf = "A" /\ e.lane # f.lane
            /\ hipBlockIdx_z(e.lane) = hipBlockIdx_z(f.lane)) => e.at # f.at

(* -------------------------------- C27 ---------------------------------- *)
\* the cells of batch item b of a vector of len elements: from the item's
\* pointer plus offset to (len - 1) * |inc| cells further
VectorCellsOf(p, offset, stride, inc, len, b) ==
    LET first == ItemAt(p, offset, stride, b)
    IN first .. first + (len - 1) * Abs(inc)

\* lane l has staged
Staged(l) == lanes[l].pc \notin {"entry", "stage"} /\ lanes[l].alpha # 0

\* C27: with a positive or a negative increment, every cell of x a lane
\* reads lies in the caller's vector of its batch item, offset ..
\* offset + (m - 1) * |incx|, and is the cell of logical element tx; the
\* same for y with n, incy and the column ty + threadIdx.x; a lane whose
\* row is not below m, or whose column is not below n, reads nothing of
\* that vector and stages 0.
C27_VectorBounds ==
    launch.phase = "run" =>
        LET c == launch.call
        IN /\ \A e \in trace :
                 LET b == hipBlockIdx_z(e.lane)
                 IN /\ e.buf = "x" =>
                        /\ e.at \in VectorCellsOf(c.x, c.offsetx, c.stridex, c.incx, c.m, b)
                        /\ e.at = ItemAt(c.x, c.offsetx, c.stridex, b)
                                      + ElementAt(c.incx, c.m, tx(e.lane))
                        /\ tx(e.lane) < c.m
                    /\ e.buf = "y" =>
                        /\ e.at \in VectorCellsOf(c.y, c.offsety, c.stridey, c.incy, c.n, b)
                        /\ e.at = ItemAt(c.y, c.offsety, c.stridey, b)
                                      + ElementAt(c.incy, c.n,
                                                  ty(e.lane) + hipThreadIdx_x(e.lane))
                        /\ ty(e.lane) + hipThreadIdx_x(e.lane) < c.n
           /\ \A l \in DOMAIN lanes :
                 Staged(l) =>
                    /\ (hipThreadIdx_y(l) = 0 /\ tx(l) >= c.m) =>
                          shared[GroupOf(l)].xdata[hipThreadIdx_x(l)] = 0
                    /\ (hipThreadIdx_x(l) < WIN /\ ty(l) + hipThreadIdx_x(l) >= c.n) =>
                          shared[GroupOf(l)].ydata[tyi(l) + hipThreadIdx_x(l)] = 0

\* a finished launch with x walked backwards in steps of 2, in which one
\* lane read the last cell of the vector and a lane beyond row m read
\* nothing
C27_Witness ==
    /\ AllExited /\ launch.call.incx = -2 /\ launch.call.m = 3
    /\ \E e \in trace :
          /\ e.buf = "x" /\ tx(e.lane) = 0
          /\ e.at = ItemAt(launch.call.x, launch.call.offsetx, launch.call.stridex, 0) + 4
    /\ \E l \in DOMAIN lanes :
          /\ tx(l) >= launch.call.m /\ Staged(l)
          /\ \A e \in trace : e.lane = l => e.buf \notin {"x", "A"}

(* -------------------------------- C28 ---------------------------------- *)
\* a gemm call that is past push_pointer_mode
Pushed == op = "gemm" /\ locals.saved_pointer_mode # "unset"

\* from the push to the return the handle is in host pointer mode; a call
\* that returned left the pointer mode it saved; a dispatch of a call made
\* in device pointer mode comes after the copy of alpha and beta to the host
C28_InsideAndAfter ==
    Pushed =>
        /\ ~Returned => handle.pointer_mode = "host"
        /\ Returned => handle.pointer_mode = locals.saved_pointer_mode
        /\ (Did("dispatch") /\ locals.saved_pointer_mode = "device") =>
               Before("copy_scalars", "dispatch")

\* the pointer mode is not touched from the entry of gemm to the push, and
\* the push saves the pointer mode it finds
C28_SavesPrior ==
    /\ (op' = "gemm" /\ pc' \in {"entry", "scalars"}) =>
           handle'.pointer_mode = handle.pointer_mode
    /\ (op = "gemm" /\ pc = "scalars" /\ pc' = "log") =>
           locals'.saved_pointer_mode = handle.pointer_mode

\* C28: a gemm call of one thread that got past the copy of alpha and beta
\* leaves, however it returns, the handle's pointer mode as it was before
\* the call; between the push and the return the pointer mode is host; in
\* device pointer mode the dispatch gets host copies of the scalars.
C28_PointerModeRestored == []C28_InsideAndAfter /\ [][C28_SavesPrior]_vars

\* a gemm call made in device pointer mode that dispatched, succeeded and
\* left the handle in device pointer mode
C28_Witness ==
    /\ Pushed /\ Returned /\ ret = "success" /\ Did("dispatch")
    /\ locals.saved_pointer_mode = "device" /\ handle.pointer_mode = "device"

(* -------------------------------- C29 ---------------------------------- *)
\* the two sizes as numbers: bytes of the x copies, bytes of the pointer table
ExactSizes(n, batch_count) == <<SizeofT * n * batch_count, SizeofPtr * batch_count>>

\* C29: for one validated argument list, the scratch sizes tbmv_batched
\* reports in size-query mode are the sizes it requests from the allocator
\* in execution mode, and both are sizeof(T) * n * batch_count and
\* sizeof(T*) * batch_count exactly, also when n * batch_count does not fit
\* a rocblas_int.
C29_SizesAgree ==
    sizes.phase = "args" =>
        /\ sizes.reported # <<>> =>
               sizes.reported = ExactSizes(sizes.n, sizes.batch_count)
        /\ sizes.requested # <<>> =>
               sizes.requested = ExactSizes(sizes.n, sizes.batch_count)
        /\ (sizes.reported # <<>> /\ sizes.requested # <<>>) =>
               sizes.reported = sizes.requested

\* both calls made with the largest n and batch_count, whose product
\* exceeds the largest rocblas_int
C29_Witness ==
    /\ sizes.phase = "args" /\ sizes.n = IntMax /\ sizes.batch_count = IntMax
    /\ sizes.n * sizes.batch_count > IntMax
    /\ sizes.reported = sizes.requested
    /\ sizes.requested = <<SizeofT * IntMax * IntMax, SizeofPtr * IntMax>>

(* -------------------------------- C30 ---------------------------------- *)
\* lane l took the return on zero alpha
EarlyExit(l) == lanes[l].pc = "exit" /\ lanes[l].alpha = 0

\* lane l waits at the barrier; lane l has gone through it
AtBarrier(l) == lanes[l].pc = "sync"
PastBarrier(l) ==
    lanes[l].alpha # 0 /\ lanes[l].pc \in {"compute", "load", "store", "exit"}

\* in a work-group the return on zero alpha is taken by every lane or by
\* none, and when a lane has gone through the barrier every lane of its
\* work-group, those beyond row m and column n too, has reached it
C30_UniformBarrier ==
    launch.phase = "run" =>
        \A l \in DOMAIN lanes : \A k \in GroupLanes(GroupOf(l)) :
            /\ EarlyExit(l) => (lanes[k].pc = "entry" \/ EarlyExit(k))
            /\ PastBarrier(l) => (AtBarrier(k) \/ PastBarrier(k))

\* C30: every lane of every work-group of a ger_kernel launch terminates,
\* and the barrier of a work-group is never reached by only some of its
\* lanes: the return on zero alpha is taken by all lanes of a work-group or
\* by none, and the guards tx < m and column < n keep no lane from the
\* barrier.
C30_LanesTerminate == []C30_UniformBarrier /\ (launch.phase = "run" ~> AllExited)

\* a finished launch of two batch items: the lanes of one item returned on
\* its zero alpha, and in the other a lane beyond row m went through the
\* barrier with the rest of its work-group
C30_Witness ==
    /\ AllExited
    /\ \E l \in DOMAIN lanes : EarlyExit(l)
    /\ \E l \in DOMAIN lanes : PastBarrier(l) /\ tx(l) >= launch.call.m

====
